---------------------------- MODULE Spec2Model ----------------------------
(***************************************************************************)
(* A model of the spade event pipeline (TwitchScience/spade):              *)
(*   - batcher.Batcher   (src/batcher/batcher.go)                          *)
(*   - globber.Globber   (src/globber/globber.go)                          *)
(*   - the processor pool (converters, transformers, writer)               *)
(*   - writer.Multee     (src/writer/multee.go)                            *)
(*   - the writer's TaskRateLimiter                                        *)
(*   - RedshiftTransformer.Consume applied to one event                    *)
(* Each component has its own variables, actions and specification; the    *)
(* components share no state.                                              *)
(***************************************************************************)
EXTENDS Integers, Sequences, FiniteSets, TLC

VARIABLES
    b,      \* the Batcher struct: config, incoming, pending, pendingSize, timer, WaitGroup
    bw,     \* the Batcher's worker goroutine: where it is, and the entry it is adding
    bc,     \* the Batcher's caller and its completor: what was submitted and handed over
    g,      \* the Globber struct: config, compressor, incoming, pending, timer, WaitGroup
    gw,     \* the Globber's worker goroutine
    gc,     \* the Globber's caller, its completor and the flate library's behaviour
    pq,     \* the processor pool's channels: in (raw requests) and transport (events)
    pconv,  \* the pool's converters: where each one is, the events it still has to send, whether it recovered from a panic
    ptrans, \* the pool's transformers: where each one is, and the request it has to write
    pw,     \* the pool's writer (its requests) and the requests handed to Process
    mt,     \* the Multee struct: targets, the RWMutex, and how many calls were made
    mp,     \* the goroutines calling the Multee: where each one is in its call
    mk,     \* the goroutines started with logger.Go to close a writer
    rl,     \* a TaskRateLimiter: its configuration, its tokens, and the attempts made
    tx,     \* a RedshiftTransformer: the event handed to Consume and what came back
    lk,     \* a userIDWithMapping transformer, its caches and its fetcher: one call, step by step
    cl,     \* transform's loop over the columns of an event's schema: the outcomes so far
    dl,     \* an eventmetadata DynamicLoader: its snapshot, its Crank goroutine and a reader
    ps,     \* the pool's Close: how far it has got
    kp      \* a KinesisPipe: its crank goroutine, the caller of Close, and the Results delivered

bvars == <<b, bw, bc>>
gvars == <<g, gw, gc>>
pvars == <<pq, pconv, ptrans, pw>>
mvars == <<mt, mp, mk>>
vars == <<b, bw, bc, g, gw, gc, pq, pconv, ptrans, pw, mt, mp, mk, rl, tx, lk, cl, dl, ps, kp>>

\* what an action of one component leaves alone
BatcherOnly == UNCHANGED <<gvars, pvars, mvars, rl, tx, lk, cl, dl, ps, kp>>
GlobberOnly == UNCHANGED <<bvars, pvars, mvars, rl, tx, lk, cl, dl, ps, kp>>
PoolOnly == UNCHANGED <<bvars, gvars, mvars, rl, tx, lk, cl, dl, ps, kp>>
MulteeOnly == UNCHANGED <<bvars, gvars, pvars, rl, tx, lk, cl, dl, ps, kp>>
LimiterOnly == UNCHANGED <<bvars, gvars, pvars, mvars, tx, lk, cl, dl, ps, kp>>
TransformerOnly == UNCHANGED <<bvars, gvars, pvars, mvars, rl, lk, cl, dl, ps, kp>>

(***************************************************************************)
(* Bounds                                                                  *)
(***************************************************************************)
\* how many entries the caller submits to one Batcher or Globber
MaxSubmit == 3
\* how many raw requests are handed to the pool's Process
MaxRaw == 2
\* the pool's converters and transformers (buildTestPool's nConverters, nTransformers)
NConverters == 1
NTransformers == 2
\* the capacity of the pool's two channels
QueueSize == 1
\* the goroutines that call one Multee, and how many calls they make in all
NClients == 2
MaxOps == 3
\* a TaskRateLimiter's initial burst, the attempts made on it, and the refill
\* periods that go by
MaxBurst == 2
MaxAttempts == 4
MaxPeriods == 2
\* how many columns the schema of an event has at most
MaxColumns == 3
\* how many times the DynamicLoader's ticker fires, and how many reads are made
MaxTicks == 2
MaxReads == 2

(***************************************************************************)
(* Sequence helpers                                                        *)
(***************************************************************************)
RECURSIVE Flatten(_)
\* the concatenation of a sequence of sequences
Flatten(ss) ==
    IF ss = <<>> THEN <<>> ELSE Head(ss) \o Flatten(Tail(ss))

RECURSIVE TotalBytes(_)
\* the sum of the lengths of a sequence of byte slices
TotalBytes(es) ==
    IF es = <<>> THEN 0 ELSE Len(Head(es)) + TotalBytes(Tail(es))

IsPrefix(s, t) ==
    /\ Len(s) <= Len(t)
    /\ SubSeq(t, 1, Len(s)) = s

(***************************************************************************)
(* batcher.Config and Config.Validate                                      *)
(***************************************************************************)
\* time.ParseDuration on the MaxAge strings the model uses: whether the string
\* is a duration, and the duration in seconds
ParseDuration(s) ==
    CASE s = "1s"  -> [err |-> FALSE, d |-> 1]
      [] s = "0s"  -> [err |-> FALSE, d |-> 0]
      [] s = "-1s" -> [err |-> FALSE, d |-> -1]
      [] OTHER     -> [err |-> TRUE, d |-> 0]

\* the configurations handed to batcher.New
BatcherConfigs ==
    [MaxSize : {-1, 0, 2}, MaxAge : {"1s", "0s", "-1s", "soon"}, BufferLength : {-1, 0, 1, 2}]

\* the byte slices handed to Submit
BatchEntries == {<<>>, <<1>>, <<1, 2>>, <<2, 1, 1>>}

\* Config.Validate: "nil", or "error"
Validate(c) ==
    LET maxAge == ParseDuration(c.MaxAge) IN
    IF maxAge.err THEN "error"
    ELSE IF maxAge.d <= 0 THEN "error"
    ELSE IF c.MaxSize <= 0 THEN "error"
    ELSE IF c.BufferLength = 0 THEN "error"
    ELSE "nil"

\* make(chan []byte, n) panics for a negative n
MakeChanPanics(n) == n < 0

(***************************************************************************)
(* The Batcher before batcher.New has been called                          *)
(***************************************************************************)
NoConfig == [MaxSize |-> 0, MaxAge |-> "", BufferLength |-> 0]

BatcherInit ==
    /\ b = [ state       |-> "none",     \* none | error | panic | running
             config      |-> NoConfig,
             incoming    |-> <<>>,
             closed      |-> FALSE,      \* close(b.incoming) was called
             pending     |-> <<>>,
             pendingSize |-> 0,
             timerArmed  |-> FALSE,      \* the time.Timer is running
             timerC      |-> FALSE,      \* a tick is waiting in timer.C
             wg          |-> 0 ]         \* the embedded sync.WaitGroup's counter
    /\ bw = [ pc |-> "none", from |-> "none", entry |-> <<>> ]
    /\ bc = [ pc        |-> "new",       \* new | run | wait | closed | failed
              config    |-> NoConfig,    \* the config New was called with
              submitted |-> <<>>,        \* the entries whose Submit returned
              calls     |-> <<>>,        \* the batches the completor was called with
              returned  |-> 0,           \* how many completor calls have returned
              atClose   |-> <<>> ]       \* calls, when Close returned

(***************************************************************************)
(* batcher.New                                                             *)
(***************************************************************************)
\* New(config, completor): Validate, then build the struct (make(chan) panics
\* on a negative BufferLength), Add(1) and start the worker
BatcherNew(c) ==
    /\ BatcherOnly
    /\ bc.pc = "new"
    /\ IF Validate(c) # "nil"
         THEN /\ b' = [b EXCEPT !.state = "error"]
              /\ bc' = [bc EXCEPT !.pc = "failed", !.config = c]
              /\ UNCHANGED bw
         ELSE IF MakeChanPanics(c.BufferLength)
         THEN /\ b' = [b EXCEPT !.state = "panic"]
              /\ bc' = [bc EXCEPT !.pc = "failed", !.config = c]
              /\ UNCHANGED bw
         ELSE /\ b' = [b EXCEPT !.state = "running", !.config = c,
                                 !.timerArmed = TRUE, !.wg = 1]
              /\ bw' = [bw EXCEPT !.pc = "select"]
              /\ bc' = [bc EXCEPT !.pc = "run", !.config = c]

(***************************************************************************)
(* The caller: Submit and Close                                            *)
(***************************************************************************)
\* Submit(entry): b.incoming <- entry, which blocks while the channel is full
BatcherSubmit(entry) ==
    /\ BatcherOnly
    /\ bc.pc = "run"
    /\ Len(bc.submitted) < MaxSubmit
    /\ Len(b.incoming) < b.config.BufferLength
    /\ b' = [b EXCEPT !.incoming = Append(@, entry)]
    /\ bc' = [bc EXCEPT !.submitted = Append(@, entry)]
    /\ UNCHANGED bw

\* Close, first half: close(b.incoming)
BatcherCloseBegin ==
    /\ BatcherOnly
    /\ bc.pc = "run"
    /\ b' = [b EXCEPT !.closed = TRUE]
    /\ bc' = [bc EXCEPT !.pc = "wait"]
    /\ UNCHANGED bw

\* Close, second half: b.Wait() returns once the WaitGroup counter is zero
BatcherCloseReturn ==
    /\ BatcherOnly
    /\ bc.pc = "wait"
    /\ b.wg = 0
    /\ bc' = [bc EXCEPT !.pc = "closed", !.atClose = bc.calls]
    /\ UNCHANGED <<b, bw>>

(***************************************************************************)
(* The timer                                                               *)
(***************************************************************************)
\* the runtime fires the timer: a tick is sent to timer.C (capacity 1, the send
\* never blocks)
BatcherTimerFire ==
    /\ BatcherOnly
    /\ b.state = "running"
    /\ b.timerArmed
    /\ b' = [b EXCEPT !.timerArmed = FALSE, !.timerC = TRUE]
    /\ UNCHANGED <<bw, bc>>

(***************************************************************************)
(* add, complete and the worker                                            *)
(***************************************************************************)
TimerResetNever(bb, stale) == bb

\* add: if len(b.pending) == 0 { b.timer.Reset(b.maxAge) }. Reset re-arms the
\* timer; a tick already waiting in timer.C stays there or is discarded,
\* depending on the Go runtime (stale: it stays)
TimerResetIfEmpty(bb, stale) ==
    IF Len(bb.pending) = 0
    THEN [bb EXCEPT !.timerArmed = TRUE, !.timerC = bb.timerC /\ stale]
    ELSE bb

AppendEntryInFront(bb, entry) ==
    [bb EXCEPT !.pending = <<entry>> \o @, !.pendingSize = @ + Len(entry)]

\* add: b.pending = append(b.pending, entry); b.pendingSize += len(entry)
AppendEntry(bb, entry) ==
    [bb EXCEPT !.pending = Append(@, entry), !.pendingSize = @ + Len(entry)]

\* add, from the timer reset to its end
FinishAdd(bb, entry, stale) ==
    AppendEntry(TimerResetIfEmpty(bb, stale), entry)

\* add: s := len(entry) + b.pendingSize; if s > b.config.MaxSize
ExceedsMaxSize(bb, entry) ==
    Len(entry) + bb.pendingSize > bb.config.MaxSize

CompleteNeverReturnsEarly(bb) == FALSE

\* complete: if len(b.pending) == 0 { return }
CompleteReturnsEarly(bb) ==
    Len(bb.pending) = 0

\* complete: b.pending = nil; b.pendingSize = 0
ResetPending(bb) ==
    [bb EXCEPT !.pending = <<>>, !.pendingSize = 0]

\* complete calls b.completor(b.pending): the call starts here, and the worker
\* stays in it until BatcherCompletorReturn
CallCompletor(from, entry) ==
    /\ bw' = [pc |-> "completor", from |-> from, entry |-> entry]
    /\ bc' = [bc EXCEPT !.calls = Append(@, b.pending)]

\* the worker takes a case of its select wherever it is
SelectingAnywhere(w) == TRUE

\* worker: the one goroutine that runs it is at the select of its for loop
Selecting(w) == w.pc = "select"

\* worker: case <-b.timer.C: b.complete()
BatcherWorkerTimer ==
    /\ BatcherOnly
    /\ Selecting(bw)
    /\ b.timerC
    /\ b' = [b EXCEPT !.timerC = FALSE]
    /\ IF CompleteReturnsEarly(b)
         THEN UNCHANGED <<bw, bc>>
         ELSE CallCompletor("timer", <<>>)

\* worker: case e, ok := <-b.incoming with ok true: b.add(e)
BatcherWorkerAdd ==
    /\ BatcherOnly
    /\ Selecting(bw)
    /\ b.incoming # <<>>
    /\ LET e == Head(b.incoming)
            taken == [b EXCEPT !.incoming = Tail(@)]
        IN IF ExceedsMaxSize(b, e) /\ ~CompleteReturnsEarly(b)
           THEN /\ b' = taken
                /\ CallCompletor("add", e)
           ELSE /\ \E stale \in BOOLEAN : b' = FinishAdd(taken, e, stale)
                /\ UNCHANGED <<bw, bc>>

DeferredCompleteForgotten(bb) == TRUE

\* worker: defer b.complete() has nothing to hand over
DeferredCompleteIsDone(bb) ==
    CompleteReturnsEarly(bb)

\* worker: case e, ok := <-b.incoming with ok false (closed and drained):
\* return, which runs the deferred b.complete() and then b.Done()
BatcherWorkerReturn ==
    /\ BatcherOnly
    /\ Selecting(bw)
    /\ b.incoming = <<>>
    /\ b.closed
    /\ IF DeferredCompleteIsDone(b)
         THEN /\ b' = [b EXCEPT !.wg = @ - 1]
              /\ bw' = [bw EXCEPT !.pc = "done"]
              /\ UNCHANGED bc
         ELSE /\ CallCompletor("defer", <<>>)
              /\ UNCHANGED b

\* the completor returns; complete resets pending and the caller of complete
\* goes on: the worker loop, the rest of add, or b.Done()
BatcherCompletorReturn ==
    /\ BatcherOnly
    /\ bw.pc = "completor"
    /\ bc' = [bc EXCEPT !.returned = @ + 1]
    /\ CASE bw.from = "timer" ->
              /\ b' = ResetPending(b)
              /\ bw' = [pc |-> "select", from |-> "none", entry |-> <<>>]
         [] bw.from = "add" ->
              /\ \E stale \in BOOLEAN : b' = FinishAdd(ResetPending(b), bw.entry, stale)
              /\ bw' = [pc |-> "select", from |-> "none", entry |-> <<>>]
         [] bw.from = "defer" ->
              /\ b' = [ResetPending(b) EXCEPT !.wg = @ - 1]
              /\ bw' = [pc |-> "done", from |-> "none", entry |-> <<>>]

BatcherCaller ==
    \/ \E c \in BatcherConfigs : BatcherNew(c)
    \/ \E e \in BatchEntries : BatcherSubmit(e)
    \/ BatcherCloseBegin
    \/ BatcherCloseReturn

BatcherWorker ==
    \/ BatcherWorkerTimer
    \/ BatcherWorkerAdd
    \/ BatcherWorkerReturn

NextBatcher ==
    \/ BatcherCaller
    \/ BatcherWorker
    \/ BatcherTimerFire
    \/ BatcherCompletorReturn

(***************************************************************************)
(* Globber: bytes, JSON arrays and deflate                                 *)
(***************************************************************************)
\* var prefix, separator, postfix, version
prefix == "["
separator == ","
postfix == "]"
version == 1

\* the entries handed to Globber.Submit: marshalled JSON values, as sequences
\* of characters
GlobEntries ==
    { <<"7">>, <<"{", "}">>, <<"[", "7", ",", "8", "]">> }

\* the configurations handed to globber.New (those GlobberConfig.Validate accepts)
GlobberConfigs ==
    [MaxSize : {4, 7}, MaxAge : {"1s"}, BufferLength : {1, 2}]

\* compress/flate: the deflate stream of a byte sequence, as one opaque block
Deflate(bytes) == << [flate |-> bytes] >>

\* compress/flate: the bytes a deflate stream inflates to
Inflate(stream) ==
    IF Len(stream) = 1
    THEN [ok |-> TRUE, bytes |-> stream[1].flate]
    ELSE [ok |-> FALSE, bytes |-> <<>>]

RECURSIVE SplitTop(_, _, _, _)
\* the elements of a JSON array's inside s, from position i on, split at the
\* commas outside any nested array or object; cur is the element being read
SplitTop(s, i, depth, cur) ==
    IF i > Len(s)
    THEN IF depth = 0 /\ cur # <<>>
         THEN [ok |-> TRUE, items |-> <<cur>>]
         ELSE [ok |-> FALSE, items |-> <<>>]
    ELSE LET ch == s[i] IN
         IF ch = "," /\ depth = 0
         THEN IF cur = <<>>
              THEN [ok |-> FALSE, items |-> <<>>]
              ELSE LET rest == SplitTop(s, i + 1, 0, <<>>)
                   IN [ok |-> rest.ok, items |-> <<cur>> \o rest.items]
         ELSE IF ch \in {"[", "{"}
         THEN SplitTop(s, i + 1, depth + 1, Append(cur, ch))
         ELSE IF ch \in {"]", "}"}
         THEN IF depth = 0
              THEN [ok |-> FALSE, items |-> <<>>]
              ELSE SplitTop(s, i + 1, depth - 1, Append(cur, ch))
         ELSE SplitTop(s, i + 1, depth, Append(cur, ch))

\* json.parse of a JSON array: its elements in order, or not ok
ParseArray(s) ==
    IF Len(s) < 2 \/ s[1] # "[" \/ s[Len(s)] # "]"
    THEN [ok |-> FALSE, items |-> <<>>]
    ELSE IF Len(s) = 2
    THEN [ok |-> TRUE, items |-> <<>>]
    ELSE SplitTop(SubSeq(s, 2, Len(s) - 1), 1, 0, <<>>)

RECURSIVE Join(_)
\* the entries joined by ','
Join(items) ==
    IF items = <<>> THEN <<>>
    ELSE IF Len(items) = 1 THEN items[1]
    ELSE items[1] \o <<separator>> \o Join(Tail(items))

\* what a glob decodes to: the version byte checked, the rest inflated and parsed
DecodeGlob(glob) ==
    IF glob = <<>> \/ glob[1] # version
    THEN [ok |-> FALSE, items |-> <<>>]
    ELSE LET inflated == Inflate(Tail(glob)) IN
         IF ~inflated.ok THEN [ok |-> FALSE, items |-> <<>>]
         ELSE ParseArray(inflated.bytes)

RECURSIVE DecodeAll(_)
\* the entries of a sequence of well-formed globs, in order
DecodeAll(globs) ==
    IF globs = <<>> THEN <<>>
    ELSE DecodeGlob(Head(globs)).items \o DecodeAll(Tail(globs))

(***************************************************************************)
(* The Globber before globber.New has been called                          *)
(***************************************************************************)
GlobberStart(fails) ==
    /\ g = [ state      |-> "none",      \* none | running
             config     |-> NoConfig,
             compressor |-> 0,           \* 0: nil; k: writes to the buffer of the k-th _complete
             incoming   |-> <<>>,
             closed     |-> FALSE,
             pending    |-> <<>>,
             timerArmed |-> FALSE,
             timerC     |-> FALSE,
             wg         |-> 0 ]
    /\ gw = [ pc |-> "none", from |-> "none", entry |-> <<>>, failed |-> FALSE ]
    /\ gc = [ pc         |-> "new",      \* new | run | wait | closed
              flateFails |-> fails,      \* the compressor's Write or Close may return an error
              submitted  |-> <<>>,       \* the entries whose Submit returned
              calls      |-> <<>>,       \* the globs the completor was called with
              returned   |-> 0,          \* how many completor calls have returned
              completes  |-> 0 ]         \* how many times _complete has run

\* the flate writer over a bytes.Buffer does not fail
GlobberInit == GlobberStart(FALSE)

\* a flate writer whose Write or Close can return an error
GlobberFaultyInit == GlobberStart(TRUE)

(***************************************************************************)
(* globber.New, Submit, Close, the timer                                   *)
(***************************************************************************)
\* New(config, completor) with a valid config: build the struct, Add(1), start
\* the worker
GlobberNew(c) ==
    /\ GlobberOnly
    /\ gc.pc = "new"
    /\ g' = [g EXCEPT !.state = "running", !.config = c, !.timerArmed = TRUE, !.wg = 1]
    /\ gw' = [gw EXCEPT !.pc = "select"]
    /\ gc' = [gc EXCEPT !.pc = "run"]

\* Submit(e): g.incoming <- e
GlobberSubmit(e) ==
    /\ GlobberOnly
    /\ gc.pc = "run"
    /\ Len(gc.submitted) < MaxSubmit
    /\ Len(g.incoming) < g.config.BufferLength
    /\ g' = [g EXCEPT !.incoming = Append(@, e)]
    /\ gc' = [gc EXCEPT !.submitted = Append(@, e)]
    /\ UNCHANGED gw

\* Close, first half: close(g.incoming)
GlobberCloseBegin ==
    /\ GlobberOnly
    /\ gc.pc = "run"
    /\ g' = [g EXCEPT !.closed = TRUE]
    /\ gc' = [gc EXCEPT !.pc = "wait"]
    /\ UNCHANGED gw

\* Close, second half: g.Wait()
GlobberCloseReturn ==
    /\ GlobberOnly
    /\ gc.pc = "wait"
    /\ g.wg = 0
    /\ gc' = [gc EXCEPT !.pc = "closed"]
    /\ UNCHANGED <<g, gw>>

\* the runtime fires the timer
GlobberTimerFire ==
    /\ GlobberOnly
    /\ g.state = "running"
    /\ g.timerArmed
    /\ g' = [g EXCEPT !.timerArmed = FALSE, !.timerC = TRUE]
    /\ UNCHANGED <<gw, gc>>

(***************************************************************************)
(* Globber: add, complete, _complete and the worker                        *)
(***************************************************************************)
\* add: s := len(entry) + g.pending.Len(); if s > g.config.MaxSize
GlobExceedsMaxSize(gg, entry) ==
    Len(entry) + Len(gg.pending) > gg.config.MaxSize

GlobCompleteNeverReturnsEarly(gg) == FALSE

\* complete: if g.pending.Len() == 0 { return nil }
GlobCompleteReturnsEarly(gg) ==
    Len(gg.pending) = 0

WriteEntryAlwaysPrefixed(gg, entry, stale) ==
    IF Len(gg.pending) = 0
    THEN [gg EXCEPT !.timerArmed = TRUE, !.timerC = gg.timerC /\ stale,
                    !.pending = <<prefix>> \o entry]
    ELSE [gg EXCEPT !.pending = @ \o <<prefix>> \o entry]

\* add, after the size check: an empty buffer gets the timer reset and the
\* prefix, a nonempty one the separator; then the entry is written
WriteEntry(gg, entry, stale) ==
    IF Len(gg.pending) = 0
    THEN [gg EXCEPT !.timerArmed = TRUE, !.timerC = gg.timerC /\ stale,
                    !.pending = <<prefix>> \o entry]
    ELSE [gg EXCEPT !.pending = @ \o <<separator>> \o entry]

\* complete: g.pending.WriteRune(postfix)
WritePostfix(gg) ==
    [gg EXCEPT !.pending = Append(@, postfix)]

BindCompressorOnce(gg, k) ==
    IF gg.compressor = 0 THEN [gg EXCEPT !.compressor = k] ELSE gg

\* _complete: a nil compressor is created over the local buffer `compressed`
\* (the k-th one), an existing compressor is Reset to it
BindCompressor(gg, k) ==
    [gg EXCEPT !.compressor = k]

\* _complete: the bytes of the k-th `compressed` buffer when the completor is
\* called: the version byte, then what the compressor wrote to this buffer
Compressed(gg, k) ==
    <<version>> \o (IF gg.compressor = k THEN Deflate(gg.pending) ELSE <<>>)

\* the buffer is left as it is
GlobPendingKept(gg) == gg

\* _complete: g.pending.Reset(), after the completor has returned
GlobResetPending(gg) ==
    [gg EXCEPT !.pending = <<>>]

\* whether the compressor's Write and Close succeed
FlateOutcomes == IF gc.flateFails THEN BOOLEAN ELSE {TRUE}

AtSelect == [pc |-> "select", from |-> "none", entry |-> <<>>, failed |-> FALSE]

\* complete on a nonempty buffer gg, called from `from`: the postfix is
\* written and _complete runs. If compressing succeeds the completor is
\* called; if it fails, _complete and complete return the error with the
\* buffer as it is, and the caller logs it and goes on (add returns without
\* writing its entry, the deferred call is followed by g.Done())
GlobberComplete(gg, from, entry) ==
    LET k == gc.completes + 1
        written == BindCompressor(WritePostfix(gg), k)
    IN \E ok \in FlateOutcomes :
        IF ok
        THEN /\ g' = written
             /\ gw' = [pc |-> "completor", from |-> from, entry |-> entry, failed |-> FALSE]
             /\ gc' = [gc EXCEPT !.calls = Append(@, Compressed(written, k)),
                                 !.completes = k]
        ELSE /\ g' = IF from = "defer" THEN [written EXCEPT !.wg = @ - 1] ELSE written
             /\ gw' = [AtSelect EXCEPT !.pc = IF from = "defer" THEN "done" ELSE "select",
                                       !.failed = TRUE]
             /\ gc' = [gc EXCEPT !.completes = k]

\* worker: case <-g.timer.C: g.complete()
GlobberWorkerTimer ==
    /\ GlobberOnly
    /\ Selecting(gw)
    /\ g.timerC
    /\ LET taken == [g EXCEPT !.timerC = FALSE] IN
       IF GlobCompleteReturnsEarly(g)
       THEN /\ g' = taken
            /\ gw' = AtSelect
            /\ UNCHANGED gc
       ELSE GlobberComplete(taken, "timer", <<>>)

\* worker: case e, ok := <-g.incoming with ok true: g.add(e)
GlobberWorkerAdd ==
    /\ GlobberOnly
    /\ Selecting(gw)
    /\ g.incoming # <<>>
    /\ LET e == Head(g.incoming)
           taken == [g EXCEPT !.incoming = Tail(@)]
       IN IF GlobExceedsMaxSize(g, e) /\ ~GlobCompleteReturnsEarly(g)
          THEN GlobberComplete(taken, "add", e)
          ELSE /\ \E stale \in BOOLEAN : g' = WriteEntry(taken, e, stale)
               /\ gw' = AtSelect
               /\ UNCHANGED gc

\* worker: the channel is closed and drained: return, which runs the deferred
\* g.complete() and then g.Done()
GlobberWorkerReturn ==
    /\ GlobberOnly
    /\ Selecting(gw)
    /\ g.incoming = <<>>
    /\ g.closed
    /\ IF GlobCompleteReturnsEarly(g)
       THEN /\ g' = [g EXCEPT !.wg = @ - 1]
            /\ gw' = [AtSelect EXCEPT !.pc = "done"]
            /\ UNCHANGED gc
       ELSE GlobberComplete(g, "defer", <<>>)

\* the completor returns; _complete resets the buffer and the caller of
\* complete goes on
GlobberCompletorReturn ==
    /\ GlobberOnly
    /\ gw.pc = "completor"
    /\ gc' = [gc EXCEPT !.returned = @ + 1]
    /\ CASE gw.from = "timer" ->
              /\ g' = GlobResetPending(g)
              /\ gw' = AtSelect
         [] gw.from = "add" ->
              /\ \E stale \in BOOLEAN : g' = WriteEntry(GlobResetPending(g), gw.entry, stale)
              /\ gw' = AtSelect
         [] gw.from = "defer" ->
              /\ g' = [GlobResetPending(g) EXCEPT !.wg = @ - 1]
              /\ gw' = [AtSelect EXCEPT !.pc = "done"]

GlobberCaller ==
    \/ \E c \in GlobberConfigs : GlobberNew(c)
    \/ \E e \in GlobEntries : GlobberSubmit(e)
    \/ GlobberCloseBegin
    \/ GlobberCloseReturn

GlobberWorker ==
    \/ GlobberWorkerTimer
    \/ GlobberWorkerAdd
    \/ GlobberWorkerReturn

NextGlobber ==
    \/ GlobberCaller
    \/ GlobberWorker
    \/ GlobberTimerFire
    \/ GlobberCompletorReturn

(***************************************************************************)
(* The transformer: RedshiftTransformer.Consume                            *)
(***************************************************************************)
\* reporter failure kinds
None == "None"
SkippedColumn == "SkippedColumn"
NonTrackingEvent == "NonTrackingEvent"
EmptyRequest == "EmptyRequest"
PanickedInProcessing == "PanickedInProcessing"

\* the properties bytes the model's events carry
PropsFull == "{distinct_id:FFFF}"
PropsNoID == "{}"
PropsNumericID == "{distinct_id:7}"
\* the JSON null, an object cut short, an id with a tab, a quote and a
\* backslash in it, and an object with an ip of its own
PropsNull == "null"
PropsMalformed == "{distinct_id:"
PropsSpecial == "{distinct_id:a\t\"\\}"
PropsOwnIP == "{ip:::1}"
\* an object with a time, a client_time, a user_agent and one more property
\* of the client's, and one with a client_time and no time
PropsTimed == "{time:5,client_time:6,user_agent:own,x:1}"
PropsClientTime == "{client_time:6}"

\* json decoding (UseNumber) of the properties bytes the model uses, into a
\* map made beforehand: an error, or the map; the JSON null decodes without
\* an error and leaves a nil map
DecodeProperties(bytes) ==
    CASE bytes = PropsFull      -> [ok |-> TRUE, isNil |-> FALSE, map |-> [distinct_id |-> [t |-> "string", v |-> "FFFF"]]]
      [] bytes = PropsNoID      -> [ok |-> TRUE, isNil |-> FALSE, map |-> <<>>]
      [] bytes = PropsNumericID -> [ok |-> TRUE, isNil |-> FALSE, map |-> [distinct_id |-> [t |-> "number", v |-> "7"]]]
      [] bytes = PropsSpecial   -> [ok |-> TRUE, isNil |-> FALSE, map |-> [distinct_id |-> [t |-> "string", v |-> "a\t\"\\"]]]
      [] bytes = PropsOwnIP     -> [ok |-> TRUE, isNil |-> FALSE, map |-> [ip |-> [t |-> "string", v |-> "::1"]]]
      [] bytes = PropsTimed     -> [ok |-> TRUE, isNil |-> FALSE,
                                    map |-> [time |-> [t |-> "number", v |-> "5"],
                                             client_time |-> [t |-> "number", v |-> "6"],
                                             user_agent |-> [t |-> "string", v |-> "own"],
                                             x |-> [t |-> "number", v |-> "1"]]]
      [] bytes = PropsClientTime -> [ok |-> TRUE, isNil |-> FALSE,
                                     map |-> [client_time |-> [t |-> "number", v |-> "6"]]]
      [] bytes = PropsNull      -> [ok |-> TRUE, isNil |-> TRUE, map |-> <<>>]
      [] OTHER                  -> [ok |-> FALSE, isNil |-> FALSE, map |-> <<>>]

\* the schema config of the pool's transformer: the columns of each tracked event
SchemaColumns ==
    [login |-> << [InboundName |-> "distinct_id", OutboundName |-> "distinct_id"],
                  [InboundName |-> "ip", OutboundName |-> "ip"] >>]

\* Configs.GetVersionForEvent
GetVersionForEvent(name) ==
    IF name = "login" THEN 42 ELSE 0

\* varcharFormat: the value must be a string
varcharFormat(arg) ==
    IF arg.t = "string" THEN [value |-> arg.v, err |-> "nil"]
    ELSE [value |-> "", err |-> "genError"]

\* RedshiftType.Format with no supporting columns and the varchar transformer
Format(column, eventProperties) ==
    IF column.InboundName \notin DOMAIN eventProperties
    THEN [value |-> "", err |-> "ErrColumnNotFound"]
    ELSE varcharFormat(eventProperties[column.InboundName])

\* the client's ip is always replaced by the server's
InjectOverridingIP(temp, event) ==
    LET t1 == IF "time" \in DOMAIN temp
              THEN ("client_time" :> temp["time"]) @@ temp
              ELSE temp
        t2 == ("time" :> [t |-> "number", v |-> event.EventTime]) @@ t1
        t3 == ("ip" :> [t |-> "string", v |-> event.ClientIP]) @@ t2
    IN IF "user_agent" \notin DOMAIN t3 /\ event.UserAgent # ""
       THEN ("user_agent" :> [t |-> "string", v |-> event.UserAgent]) @@ t3
       ELSE t3

\* transform: the server-side fields set on the decoded properties
InjectServerFields(temp, event) ==
    LET t1 == IF "time" \in DOMAIN temp
              THEN ("client_time" :> temp["time"]) @@ temp
              ELSE temp
        t2 == ("time" :> [t |-> "number", v |-> event.EventTime]) @@ t1
        t3 == IF "ip" \notin DOMAIN t2
              THEN ("ip" :> [t |-> "string", v |-> event.ClientIP]) @@ t2
              ELSE t2
    IN IF "user_agent" \notin DOMAIN t3 /\ event.UserAgent # ""
       THEN ("user_agent" :> [t |-> "string", v |-> event.UserAgent]) @@ t3
       ELSE t3

\* transform panics: temp["time"] = event.EventTime is an assignment to an
\* entry of a nil map when the properties of a tracked event decoded to nil
TransformPanics(event) ==
    /\ event.Event # ""
    /\ event.Event \in DOMAIN SchemaColumns
    /\ DecodeProperties(event.Properties).ok
    /\ DecodeProperties(event.Properties).isNil

\* the errors a column's Format can return: none, the column is missing, a
\* cast failed, the two errors of the lookup package, and the eight outcomes
\* of the userIDWithMapping transformer
FormatErrors ==
    { "nil", "ErrColumnNotFound", "genError",
      "lookup.ErrTooManyRequests", "lookup.ErrExtractingValue",
      "ErrIDSet", "ErrBadLookupValue", "ErrEmptyLookupValue", "ErrLocalCacheHit",
      "ErrRemoteCacheHit", "ErrFetchSuccess", "ErrFetchFailure", "ErrCacheSetFailure" }

\* transform: the switch on the error Format returned for a column: whether
\* the column is skipped, and the counters of results that go up by one
ColumnOutcome(err) ==
    CASE err = "nil" -> [skipped |-> FALSE, stats |-> {"success"}]
      [] err = "lookup.ErrTooManyRequests" -> [skipped |-> TRUE, stats |-> {"tooManyFetchRequests"}]
      [] err = "lookup.ErrExtractingValue" -> [skipped |-> TRUE, stats |-> {"invalidMapping"}]
      [] err = "ErrIDSet" -> [skipped |-> FALSE, stats |-> {"success", "cache.id_set"}]
      [] err = "ErrBadLookupValue" -> [skipped |-> TRUE, stats |-> {"cache.bad_lookup_value"}]
      [] err = "ErrEmptyLookupValue" -> [skipped |-> TRUE, stats |-> {"cache.empty_lookup_value"}]
      [] err = "ErrLocalCacheHit" -> [skipped |-> FALSE, stats |-> {"success", "cache.local_cache_hit"}]
      [] err = "ErrRemoteCacheHit" -> [skipped |-> FALSE, stats |-> {"success", "cache.remote_cache_hit"}]
      [] err = "ErrFetchSuccess" -> [skipped |-> FALSE, stats |-> {"success", "cache.fetch_success"}]
      [] err = "ErrFetchFailure" -> [skipped |-> TRUE, stats |-> {"cache.fetch_failure"}]
      [] err = "ErrCacheSetFailure" -> [skipped |-> FALSE, stats |-> {"success", "cache.set_failure"}]
      [] OTHER -> [skipped |-> TRUE, stats |-> {}]

\* transform: the TSV line (its quoted fields, in column order) and the error
transform(event) ==
    IF event.Event = "" THEN [line |-> <<>>, err |-> "ErrEmptyRequest"]
    ELSE IF event.Event \notin DOMAIN SchemaColumns THEN [line |-> <<>>, err |-> "ErrNotTracked"]
    ELSE LET decoded == DecodeProperties(event.Properties) IN
         IF ~decoded.ok THEN [line |-> <<>>, err |-> "decode"]
         ELSE IF TransformPanics(event) THEN [line |-> <<>>, err |-> "panic"]
         ELSE LET temp == InjectServerFields(decoded.map, event)
                  columns == SchemaColumns[event.Event]
                  out == [n \in 1..Len(columns) |-> Format(columns[n], temp)]
              IN [ line |-> [n \in 1..Len(columns) |-> [quoted |-> out[n].value]],
                   err  |-> IF \E n \in 1..Len(columns) : ColumnOutcome(out[n].err).skipped
                            THEN "ErrSkippedColumn" ELSE "nil" ]

WriteRequest(category, ver, line, uuid, source, failure, pstart) ==
    [ Category |-> category, Version |-> ver, Line |-> line, UUID |-> uuid,
      Source |-> source, Failure |-> failure, Pstart |-> pstart ]

ConsumeFailedWithoutSource(event) ==
    WriteRequest(event.Event, GetVersionForEvent(event.Event), <<>>, event.UUID, "",
                 event.Failure, event.Pstart)

\* Consume, for an event that already carries a failure: the failure, the uuid
\* and the properties are passed on
ConsumeFailed(event) ==
    WriteRequest(event.Event, GetVersionForEvent(event.Event), <<>>, event.UUID,
                 event.Properties, event.Failure, event.Pstart)

\* json.Valid for the properties bytes the model uses: only the object cut
\* short is not a JSON value
ValidJSON(bytes) ==
    bytes # PropsMalformed

\* the JSON object {event, properties} of an event
MarshalNontracked(event) ==
    <<[dump |-> event.Event], [dump |-> event.Properties]>>

\* the dump is made whatever the properties are
DumpAlwaysMade(event) ==
    MarshalNontracked(event)

\* Consume, ErrNotTracked: json.Marshal of the nontrackedEvent; it fails when
\* the properties (a json.RawMessage) are not valid JSON, and the dump is then
\* the empty string
DumpNontracked(event) ==
    IF ValidJSON(event.Properties) THEN MarshalNontracked(event) ELSE <<>>

\* an error of no known type is passed over as a skipped column
ConsumeUnclassifiedAsSkipped(event) ==
    WriteRequest("Unknown", GetVersionForEvent(event.Event), <<>>, event.UUID,
                 event.Properties, SkippedColumn, event.Pstart)

\* Consume, the default case of the switch on the type of transform's error
ConsumeUnclassified(event) ==
    WriteRequest("Unknown", GetVersionForEvent(event.Event), <<>>, event.UUID,
                 event.Properties, EmptyRequest, event.Pstart)

\* Consume, for an event without a failure: the request made from what
\* transform returned
ConsumeTransformed(event, r) ==
    LET ver == GetVersionForEvent(event.Event) IN
    CASE r.err = "nil" ->
           WriteRequest(event.Event, ver, r.line, event.UUID, event.Properties,
                        None, event.Pstart)
      [] r.err = "ErrNotTracked" ->
           WriteRequest(event.Event, ver, DumpNontracked(event),
                        event.UUID, event.Properties, NonTrackingEvent, event.Pstart)
      [] r.err = "ErrSkippedColumn" ->
           WriteRequest(event.Event, ver, r.line, event.UUID, event.Properties,
                        SkippedColumn, event.Pstart)
      [] OTHER -> ConsumeUnclassified(event)

ConsumeWithoutUUID(event) ==
    [ (IF event.Failure # None
       THEN ConsumeFailed(event)
       ELSE ConsumeTransformed(event, transform(event))) EXCEPT !.UUID = "" ]

\* RedshiftTransformer.Consume
Consume(event) ==
    IF event.Failure # None
    THEN ConsumeFailed(event)
    ELSE ConsumeTransformed(event, transform(event))

(***************************************************************************)
(* The processor pool: parser, converters, transformers, writer            *)
(***************************************************************************)
\* the raw lines handed to Process
RawLines == {"multi", "unsafe", "poison"}

MixpanelEvent(name, props, uuid, pstart) ==
    [ Event |-> name, Properties |-> props, UUID |-> uuid, ClientIP |-> "10.1.40.26",
      UserAgent |-> "", EventTime |-> "1382033155", Failure |-> None, Pstart |-> pstart ]

\* Parser.Parse panics on this request
ParsePanics(request) == request.data = "poison"

\* Parser.Parse: the events of a raw request; the events of a multi-event
\* request share the uuid base, with a -N suffix
Parse(request) ==
    CASE request.data = "multi" ->
            << MixpanelEvent("login", PropsFull, "uuid1-0", request.start),
               MixpanelEvent("login", PropsNoID, "uuid1-1", request.start) >>
      [] request.data = "unsafe" ->
            << MixpanelEvent("bomb", PropsFull, "uuid1-0", request.start),
               MixpanelEvent("foo", PropsNumericID, "uuid1-1", request.start) >>
      [] OTHER -> <<>>

\* Transformer.Consume panics on this event
ConsumePanics(event) == event.Event = "bomb" /\ event.Failure = None

\* the event a converter puts on the transport when Parse panicked
PanickedEvent(request) ==
    [ MixpanelEvent("Unknown", request.data, "error", request.start)
        EXCEPT !.Failure = PanickedInProcessing ]

\* the request a transformer writes when Consume panicked
PanickedRequest(event) ==
    WriteRequest("Unknown", 0, <<>>, "error", "", PanickedInProcessing, event.Pstart)

\* a converter's guarded Parse: the events it will send
Convert(request) ==
    IF ParsePanics(request) THEN << PanickedEvent(request) >> ELSE Parse(request)

\* a transformer's guarded Consume: the request it will write
Transform(event) ==
    IF ConsumePanics(event) THEN PanickedRequest(event) ELSE Consume(event)

\* a worker's history: "no" panic so far, "yes" it recovered from one, or it
\* has "resumed": it took another item after recovering
AfterItem(recovered, panics) ==
    IF recovered # "no" THEN "resumed"
    ELSE IF panics THEN "yes" ELSE "no"

\* buildTestPool: two channels of capacity QueueSize, the converters between
\* them, the transformers reading the second, and the writer; StartListeners
PoolInit ==
    /\ pq = [in |-> <<>>, transport |-> <<>>]
    /\ pconv = [c \in 1..NConverters |-> [pc |-> "recv", out |-> <<>>, recovered |-> "no"]]
    /\ ptrans = [t \in 1..NTransformers |-> [pc |-> "recv", req |-> <<>>, recovered |-> "no"]]
    /\ pw = [requests |-> <<>>, processed |-> <<>>]

\* Process(request): p.in <- request
PoolProcess(line) ==
    /\ PoolOnly
    /\ ps.pc = "open"
    /\ Len(pw.processed) < MaxRaw
    /\ Len(pq.in) < QueueSize
    /\ LET request == [data |-> line, start |-> Len(pw.processed) + 1] IN
       /\ pq' = [pq EXCEPT !.in = Append(@, request)]
       /\ pw' = [pw EXCEPT !.processed = Append(@, request)]
    /\ UNCHANGED <<pconv, ptrans>>

\* a converter takes a request from in and parses it
ConverterReceive(c) ==
    /\ PoolOnly
    /\ pconv[c].pc = "recv"
    /\ pq.in # <<>>
    /\ LET events == Convert(Head(pq.in))
           recovered == AfterItem(pconv[c].recovered, ParsePanics(Head(pq.in)))
       IN pconv' = [pconv EXCEPT ![c] =
                       IF events = <<>>
                       THEN [pc |-> "recv", out |-> <<>>, recovered |-> recovered]
                       ELSE [pc |-> "send", out |-> events, recovered |-> recovered]]
    /\ pq' = [pq EXCEPT !.in = Tail(@)]
    /\ UNCHANGED <<ptrans, pw>>

\* a converter sends its next event on the transport
ConverterSend(c) ==
    /\ PoolOnly
    /\ pconv[c].pc = "send"
    /\ Len(pq.transport) < QueueSize
    /\ pq' = [pq EXCEPT !.transport = Append(@, Head(pconv[c].out))]
    /\ pconv' = [pconv EXCEPT ![c] = IF Len(pconv[c].out) = 1
                                    THEN [@ EXCEPT !.pc = "recv", !.out = <<>>]
                                    ELSE [@ EXCEPT !.out = Tail(@)]]
    /\ UNCHANGED <<ptrans, pw>>

\* a transformer takes an event from the transport and consumes it
TransformerReceive(t) ==
    /\ PoolOnly
    /\ ptrans[t].pc = "recv"
    /\ pq.transport # <<>>
    /\ ptrans' = [ptrans EXCEPT ![t] =
                     [pc |-> "write", req |-> Transform(Head(pq.transport)),
                      recovered |-> AfterItem(ptrans[t].recovered,
                                              ConsumePanics(Head(pq.transport)))]]
    /\ pq' = [pq EXCEPT !.transport = Tail(@)]
    /\ UNCHANGED <<pconv, pw>>

\* testWriter.Write, under its mutex: w.requests = append(w.requests, r)
WriterWrite(requests, r) == Append(requests, r)

\* a transformer hands its request to the pool's writer
TransformerWrite(t) ==
    /\ PoolOnly
    /\ ptrans[t].pc = "write"
    /\ pw' = [pw EXCEPT !.requests = WriterWrite(@, ptrans[t].req)]
    /\ ptrans' = [ptrans EXCEPT ![t] = [@ EXCEPT !.pc = "recv", !.req = <<>>]]
    /\ UNCHANGED <<pq, pconv>>

NextPool ==
    \/ \E line \in RawLines : PoolProcess(line)
    \/ \E c \in 1..NConverters : ConverterReceive(c)
    \/ \E c \in 1..NConverters : ConverterSend(c)
    \/ \E t \in 1..NTransformers : TransformerReceive(t)
    \/ \E t \in 1..NTransformers : TransformerWrite(t)

(***************************************************************************)
(* The processor pool: Close                                               *)
(***************************************************************************)
\* Close has not been called
ShutdownInit == ps = [pc |-> "open"]

ShutdownOnly == UNCHANGED <<bvars, gvars, mvars, rl, tx, lk, cl, dl, kp>>

\* Close, first step: the input channel is closed
PoolCloseBegin ==
    /\ ShutdownOnly
    /\ ps.pc = "open"
    /\ ps' = [ps EXCEPT !.pc = "converters"]
    /\ UNCHANGED pvars

\* a converter finds the input channel closed and empty, and exits
ConverterExit(c) ==
    /\ ShutdownOnly
    /\ ps.pc # "open"
    /\ pconv[c].pc = "recv"
    /\ pq.in = <<>>
    /\ pconv' = [pconv EXCEPT ![c].pc = "done"]
    /\ UNCHANGED <<pq, ptrans, pw, ps>>

\* Close does not wait for the workers of a stage
StageOverAnytime(workers) == TRUE

\* Close waits for the workers of a stage: all of them have exited
StageOver(workers) ==
    \A w \in DOMAIN workers : workers[w].pc = "done"

\* Close, after the converters: the transport is closed
PoolCloseTransport ==
    /\ ShutdownOnly
    /\ ps.pc = "converters"
    /\ StageOver(pconv)
    /\ ps' = [ps EXCEPT !.pc = "transformers"]
    /\ UNCHANGED pvars

\* a transformer finds the transport closed and empty, and exits
TransformerExit(t) ==
    /\ ShutdownOnly
    /\ ps.pc \in {"transformers", "writer", "closed"}
    /\ ptrans[t].pc = "recv"
    /\ pq.transport = <<>>
    /\ ptrans' = [ptrans EXCEPT ![t].pc = "done"]
    /\ UNCHANGED <<pq, pconv, pw, ps>>

\* Close, after the transformers: the writer is closed
PoolCloseWriter ==
    /\ ShutdownOnly
    /\ ps.pc = "transformers"
    /\ StageOver(ptrans)
    /\ ps' = [ps EXCEPT !.pc = "writer"]
    /\ UNCHANGED pvars

\* Close returns
PoolCloseReturn ==
    /\ ShutdownOnly
    /\ ps.pc = "writer"
    /\ ps' = [ps EXCEPT !.pc = "closed"]
    /\ UNCHANGED pvars

\* the raw requests handed to a pool that is later closed
ShutdownLines == {"multi", "poison"}

NextShutdown ==
    \/ \E line \in ShutdownLines : PoolProcess(line)
    \/ \E c \in 1..NConverters : ConverterReceive(c)
    \/ \E c \in 1..NConverters : ConverterSend(c)
    \/ \E t \in 1..NTransformers : TransformerReceive(t)
    \/ \E t \in 1..NTransformers : TransformerWrite(t)
    \/ PoolCloseBegin
    \/ \E c \in 1..NConverters : ConverterExit(c)
    \/ PoolCloseTransport
    \/ \E t \in 1..NTransformers : TransformerExit(t)
    \/ PoolCloseWriter
    \/ PoolCloseReturn

(***************************************************************************)
(* writer.Multee: a map of target writers behind a sync.RWMutex            *)
(***************************************************************************)
\* the keys the callers use
Keys == {"a", "b"}

\* no writer under a key
NoWriter == 0

\* the keys of a target map
Present(targets) == {k \in Keys : targets[k] # NoWriter}

\* sync.RWMutex: Lock waits until no goroutine holds the lock either way
CanLockAnytime(l) == TRUE

CanLock(l) == l.w = 0 /\ l.r = {}

\* sync.RWMutex: RLock never waits
CanRLockAnytime(l) == TRUE

\* sync.RWMutex: RLock waits until no goroutine holds the lock exclusively
CanRLock(l) == l.w = 0

\* NewMultee: an empty target map, the zero RWMutex
MulteeInit ==
    /\ mt = [targets |-> [k \in Keys |-> NoWriter], lock |-> [w |-> 0, r |-> {}], nops |-> 0,
             removed |-> {}, closes |-> {}, refused |-> {}]
    /\ mp = [p \in 1..NClients |->
                [pc |-> "idle", op |-> "none", key |-> "a", id |-> 0,
                 atLock |-> [k \in Keys |-> NoWriter], atUnlock |-> [k \in Keys |-> NoWriter],
                 visited |-> {}, called |-> {}, ncalls |-> 0, firstBad |-> 0, ret |-> TRUE, err |-> "none",
                 spawned |-> {}, nspawned |-> 0, wg |-> 0]]
    /\ mk = {}

\* (of the Multee, removed are the writers a Drop or a Replace has started a
\* closing goroutine for, closes the numbers of the calls of Close, and
\* refused the writers passed to a Replace of a key that had no writer)
\* a goroutine enters a call: the call's number also names the writer the
\* caller passes to Add or Replace. The rest is what the call did, for the
\* properties: the target map when it got the lock (atLock) and when it gave it
\* up (atUnlock), the writers it called (called, ncalls calls in all), which
\* of its calls of a writer's Rotate was the first not to return (true, nil)
\* (firstBad, 0 if none), and the writers it started a closing goroutine for
\* (spawned, nspawned goroutines in all); ret and err are the call's results
StartOp(p, op, key, pc) ==
    [pc |-> pc, op |-> op, key |-> key, id |-> mt.nops + 1,
     atLock |-> mt.targets, atUnlock |-> mt.targets,
     visited |-> {}, called |-> {}, ncalls |-> 0, firstBad |-> 0, ret |-> TRUE, err |-> "none",
     spawned |-> {}, nspawned |-> 0, wg |-> 0]

\* a goroutine that has returned from a call makes another one, or the next
\* goroutine that has made none yet (they are alike) makes its first
CanStart(p) ==
    /\ \/ mp[p].pc = "returned"
       \/ mp[p].pc = "idle" /\ \A q \in 1..(p - 1) : mp[q].pc # "idle"
    /\ mt.nops < MaxOps

\* t.Lock() of Add, Drop, Replace and Close
MulteeLock(p, op, key, pc) ==
    /\ MulteeOnly
    /\ CanStart(p)
    /\ CanLock(mt.lock)
    /\ mt' = [mt EXCEPT !.lock.w = p, !.nops = @ + 1,
                        !.closes = IF op = "Close" THEN @ \cup {mt.nops + 1} ELSE @]
    /\ mp' = [mp EXCEPT ![p] = StartOp(p, op, key, pc)]
    /\ UNCHANGED mk

\* t.RLock() of Write and Rotate
MulteeRLock(p, op) ==
    /\ MulteeOnly
    /\ CanStart(p)
    /\ CanRLock(mt.lock)
    /\ mt' = [mt EXCEPT !.lock.r = @ \cup {p}, !.nops = @ + 1]
    /\ mp' = [mp EXCEPT ![p] = StartOp(p, op, "a", "iter")]
    /\ UNCHANGED mk

\* Add(key, w): t.Lock()
MulteeAdd(p, key) == MulteeLock(p, "Add", key, "add")

\* Add: a key collision keeps the map
AddOverwrites(targets, key, w) == [targets EXCEPT ![key] = w]

AddIfAbsent(targets, key, w) ==
    IF targets[key] # NoWriter THEN targets ELSE [targets EXCEPT ![key] = w]

\* Add: the lookup and t.targets[key] = w
MulteeAddBody(p) ==
    /\ MulteeOnly
    /\ mp[p].pc = "add"
    /\ mt' = [mt EXCEPT !.targets = AddIfAbsent(mt.targets, mp[p].key, mp[p].id)]
    /\ mp' = [mp EXCEPT ![p].pc = "unlock"]
    /\ UNCHANGED mk

\* Drop(key): t.Lock()
MulteeDrop(p, key) == MulteeLock(p, "Drop", key, "lookup")

\* Replace(key, newWriter): t.Lock()
MulteeReplace(p, key) == MulteeLock(p, "Replace", key, "lookup")

\* Drop, Replace: every key is taken to exist
ExistsAlways(targets, key) == TRUE

\* writer, exists := t.targets[key]
Exists(targets, key) == targets[key] # NoWriter

\* Drop, Replace: writer, exists := t.targets[key]; return if it does not exist
MulteeLookup(p) ==
    /\ MulteeOnly
    /\ mp[p].pc = "lookup"
    /\ mp' = [mp EXCEPT ![p].pc =
                IF ~Exists(mt.targets, mp[p].key) THEN "unlock" ELSE "spawn"]
    /\ mt' = [mt EXCEPT !.refused = IF mp[p].op = "Replace" /\ mt.targets[mp[p].key] = NoWriter
                                    THEN @ \cup {mp[p].id} ELSE @]
    /\ UNCHANGED mk

\* logger.Go(func() { writer.Close() }): a goroutine that will close writer w
CloseTask(by, w) == [by |-> by, w |-> w, st |-> "spawned", err |-> FALSE]

\* Drop, Replace: no goroutine is started
SpawnNothing(tasks, by, w) == tasks

SpawnClose(tasks, by, w) == tasks \cup {CloseTask(by, w)}

\* Drop, Replace: logger.Go closes the writer found under the key
MulteeSpawnClose(p) ==
    /\ MulteeOnly
    /\ mp[p].pc = "spawn"
    /\ mk' = SpawnClose(mk, mp[p].id, mt.targets[mp[p].key])
    /\ mp' = [mp EXCEPT ![p].pc = "delete",
                        ![p].spawned = @ \cup {mt.targets[mp[p].key]},
                        ![p].nspawned = Cardinality(mk') - Cardinality(mk)]
    /\ mt' = [mt EXCEPT !.removed = @ \cup {mt.targets[mp[p].key]}]

\* Drop, Replace: the key stays in the map
DeleteKeyForgotten(targets, key) == targets

\* delete(t.targets, key)
DeleteKey(targets, key) == [targets EXCEPT ![key] = NoWriter]

\* Drop, Replace: delete(t.targets, key)
MulteeDelete(p) ==
    /\ MulteeOnly
    /\ mp[p].pc = "delete"
    /\ mt' = [mt EXCEPT !.targets = DeleteKey(@, mp[p].key)]
    /\ mp' = [mp EXCEPT ![p].pc = IF mp[p].op = "Replace" THEN "assign" ELSE "unlock"]
    /\ UNCHANGED mk

\* Replace: the new writer is not registered
AssignKeyForgotten(targets, key, w) == targets

\* t.targets[key] = newWriter
AssignKey(targets, key, w) == [targets EXCEPT ![key] = w]

\* Replace: t.targets[key] = newWriter
MulteeAssign(p) ==
    /\ MulteeOnly
    /\ mp[p].pc = "assign"
    /\ mt' = [mt EXCEPT !.targets = AssignKey(@, mp[p].key, mp[p].id)]
    /\ mp' = [mp EXCEPT ![p].pc = "unlock"]
    /\ UNCHANGED mk

\* the deferred t.Unlock() of Add, Drop, Replace and Close, and the return
MulteeUnlock(p) ==
    /\ MulteeOnly
    /\ mp[p].pc = "unlock"
    /\ mt' = [mt EXCEPT !.lock.w = 0]
    /\ mp' = [mp EXCEPT ![p].pc = "returned", ![p].atUnlock = mt.targets,
                        ![p].err = IF mp[p].op = "Close" THEN "nil" ELSE @]
    /\ UNCHANGED mk

\* Write(r): t.RLock()
MulteeWrite(p) == MulteeRLock(p, "Write")

\* Rotate(): t.RLock()
MulteeRotate(p) == MulteeRLock(p, "Rotate")

\* the keys a range over t.targets has still to visit
Unvisited(p) == Present(mt.targets) \ mp[p].visited

\* Rotate: an error does not clear allDone
RotateAllDoneIgnoringErrors(allDone, done, err) == allDone /\ done

\* Rotate: allDone = false on an error, allDone && done otherwise
RotateAllDone(allDone, done, err) ==
    IF err THEN FALSE ELSE allDone /\ done

\* Write, Rotate: one round of the range over t.targets, in the map's order:
\* writer.Write(r), or writer.Rotate() with whatever that writer returns
MulteeForward(p) ==
    /\ MulteeOnly
    /\ mp[p].pc = "iter"
    /\ \E k \in Unvisited(p) :
          \/ /\ mp[p].op = "Write"
             /\ mp' = [mp EXCEPT ![p].visited = @ \cup {k},
                                 ![p].called = @ \cup {mt.targets[k]},
                                 ![p].ncalls = @ + 1]
          \/ /\ mp[p].op = "Rotate"
             /\ \E done \in BOOLEAN, err \in BOOLEAN :
                   mp' = [mp EXCEPT ![p].visited = @ \cup {k},
                                    ![p].called = @ \cup {mt.targets[k]},
                                    ![p].ncalls = @ + 1,
                                    ![p].firstBad =
                                        IF @ = 0 /\ ~(done /\ ~err) THEN mp[p].ncalls + 1 ELSE @,
                                    ![p].ret = RotateAllDone(@, done, err)]
    /\ UNCHANGED <<mt, mk>>

\* Write, Rotate: the range is over; the deferred t.RUnlock() and the return
MulteeRUnlock(p) ==
    /\ MulteeOnly
    /\ mp[p].pc = "iter"
    /\ Unvisited(p) = {}
    /\ mt' = [mt EXCEPT !.lock.r = @ \ {p}]
    /\ mp' = [mp EXCEPT ![p].pc = "returned", ![p].atUnlock = mt.targets,
                        ![p].err = IF mp[p].op = "Rotate" THEN "nil" ELSE @]
    /\ UNCHANGED mk

\* Close(): t.Lock()
MulteeClose(p) == MulteeLock(p, "Close", "a", "closing")

\* Close: wg.Add(len(t.targets))
MulteeCloseAdd(p) ==
    /\ MulteeOnly
    /\ mp[p].pc = "closing"
    /\ mp' = [mp EXCEPT ![p].pc = "range", ![p].wg = Cardinality(Present(mt.targets))]
    /\ UNCHANGED <<mt, mk>>

\* Close: one round of the range over t.targets: logger.Go closes the writer
MulteeCloseSpawn(p) ==
    /\ MulteeOnly
    /\ mp[p].pc = "range"
    /\ \E k \in Unvisited(p) :
          /\ mk' = SpawnClose(mk, mp[p].id, mt.targets[k])
          /\ mp' = [mp EXCEPT ![p].visited = @ \cup {k},
                              ![p].spawned = @ \cup {mt.targets[k]},
                              ![p].nspawned = @ + Cardinality(mk') - Cardinality(mk)]
    /\ UNCHANGED mt

\* Close: wg.Wait() returns at once
WaitIsOverAnytime(wg) == TRUE

\* wg.Wait() returns when the counter is zero
WaitIsOver(wg) == wg = 0

\* Close: the range is over and wg.Wait() has returned
MulteeCloseWait(p) ==
    /\ MulteeOnly
    /\ mp[p].pc = "range"
    /\ Unvisited(p) = {}
    /\ WaitIsOver(mp[p].wg)
    /\ mp' = [mp EXCEPT ![p].pc = "unlock"]
    /\ UNCHANGED <<mt, mk>>

\* a goroutine started by logger.Go calls the writer's Close
MulteeTaskRun(task) ==
    /\ MulteeOnly
    /\ task.st = "spawned"
    /\ mk' = (mk \ {task}) \cup {[task EXCEPT !.st = "running"]}
    /\ UNCHANGED <<mt, mp>>

\* the writer's Close returns, with an error or without; a goroutine started
\* by Close then runs its deferred wg.Done()
MulteeTaskReturn(task) ==
    /\ MulteeOnly
    /\ task.st = "running"
    /\ \E err \in BOOLEAN :
          mk' = (mk \ {task}) \cup {[task EXCEPT !.st = "returned", !.err = err]}
    /\ mp' = [p \in 1..NClients |->
                IF mp[p].op = "Close" /\ mp[p].id = task.by /\ mp[p].pc = "range"
                THEN [mp[p] EXCEPT !.wg = @ - 1]
                ELSE mp[p]]
    /\ UNCHANGED mt

NextMultee ==
    \/ \E p \in 1..NClients, key \in Keys : MulteeAdd(p, key)
    \/ \E p \in 1..NClients : MulteeAddBody(p)
    \/ \E p \in 1..NClients, key \in Keys : MulteeDrop(p, key)
    \/ \E p \in 1..NClients, key \in Keys : MulteeReplace(p, key)
    \/ \E p \in 1..NClients : MulteeLookup(p)
    \/ \E p \in 1..NClients : MulteeSpawnClose(p)
    \/ \E p \in 1..NClients : MulteeDelete(p)
    \/ \E p \in 1..NClients : MulteeAssign(p)
    \/ \E p \in 1..NClients : MulteeUnlock(p)
    \/ \E p \in 1..NClients : MulteeWrite(p)
    \/ \E p \in 1..NClients : MulteeRotate(p)
    \/ \E p \in 1..NClients : MulteeForward(p)
    \/ \E p \in 1..NClients : MulteeRUnlock(p)
    \/ \E p \in 1..NClients : MulteeClose(p)
    \/ \E p \in 1..NClients : MulteeCloseAdd(p)
    \/ \E p \in 1..NClients : MulteeCloseSpawn(p)
    \/ \E p \in 1..NClients : MulteeCloseWait(p)
    \/ \E task \in mk : MulteeTaskRun(task)
    \/ \E task \in mk : MulteeTaskReturn(task)

(***************************************************************************)
(* The writer's TaskRateLimiter                                            *)
(***************************************************************************)
\* the refill periods, in seconds, the limiters are made with
RefillPeriods == {0, 3600}

Min(x, y) == IF x <= y THEN x ELSE y

\* no limiter made yet
LimiterInit ==
    rl = [state |-> "none", burst |-> 0, period |-> 0, tokens |-> 0,
          attempts |-> 0, ran |-> {}, elapsed |-> 0]

\* newTaskRateLimiter(initialBurst, refillPeriodSeconds)
NewTaskRateLimiter(initialBurst, period) ==
    /\ LimiterOnly
    /\ rl.state = "none"
    /\ rl' = [rl EXCEPT !.state = "ready", !.burst = initialBurst, !.period = period,
                        !.tokens = initialBurst]
    /\ UNCHANGED tx

\* every attempt is let through
AllowedAlways(l) == TRUE

\* an attempt is let through when the limiter has no period or has a token
Allowed(l) == l.period = 0 \/ l.tokens > 0

\* attempt(task): the task runs now, using a token, or it is dropped
LimiterAttempt ==
    /\ LimiterOnly
    /\ rl.state = "ready"
    /\ rl.attempts < MaxAttempts
    /\ rl' = IF Allowed(rl)
             THEN [rl EXCEPT !.attempts = @ + 1,
                             !.ran = @ \cup {rl.attempts + 1},
                             !.tokens = IF rl.period = 0 THEN @ ELSE @ - 1]
             ELSE [rl EXCEPT !.attempts = @ + 1]
    /\ UNCHANGED tx

\* a refill period goes by: one more task is allowed; the spec does not say
\* how many unused tokens a limiter keeps, so the bucket holds the initial
\* burst or, when that is zero, possibly one
LimiterRefill ==
    /\ LimiterOnly
    /\ rl.state = "ready"
    /\ rl.period # 0
    /\ rl.elapsed < MaxPeriods
    /\ \E cap \in {rl.burst, IF rl.burst = 0 THEN 1 ELSE rl.burst} :
          rl' = [rl EXCEPT !.elapsed = @ + 1, !.tokens = Min(@ + 1, cap)]
    /\ UNCHANGED tx

NextLimiter ==
    \/ \E k \in 0..MaxBurst, period \in RefillPeriods : NewTaskRateLimiter(k, period)
    \/ LimiterAttempt
    \/ LimiterRefill

(***************************************************************************)
(* RedshiftTransformer.Consume applied to one event                        *)
(***************************************************************************)
\* the events handed to Consume: empty, tracked and untracked names, every
\* kind of properties bytes, with and without a failure set by the parser
ConsumeEvents ==
    { [ MixpanelEvent(name, props, uuid, pstart)
          EXCEPT !.Failure = failure, !.UserAgent = agent ] :
        name \in {"", "login", "foo"},
        props \in {PropsFull, PropsNoID, PropsNumericID, PropsNull, PropsMalformed,
                   PropsSpecial, PropsOwnIP, PropsTimed, PropsClientTime},
        uuid \in {"uuid1", "error"},
        pstart \in {1, 2},
        failure \in {None, "UnableToParseData", PanickedInProcessing},
        agent \in {"", "ua"} }

\* the characters of the strings that end up in a line
Chars(str) ==
    CASE str = ""           -> <<>>
      [] str = "FFFF"       -> <<"F", "F", "F", "F">>
      [] str = "a\t\"\\"    -> <<"a", "\t", "\"", "\\">>
      [] str = "::1"        -> <<":", ":", "1">>
      [] str = "10.1.40.26" -> <<"1", "0", ".", "1", ".", "4", "0", ".", "2", "6">>

RECURSIVE Escape(_)
\* strconv.Quote, inside the quotes: a quote, a backslash and a tab are escaped
Escape(chars) ==
    IF chars = <<>> THEN <<>>
    ELSE (CASE Head(chars) = "\"" -> <<"\\", "\"">>
            [] Head(chars) = "\\" -> <<"\\", "\\">>
            [] Head(chars) = "\t" -> <<"\\", "t">>
            [] OTHER              -> <<Head(chars)>>) \o Escape(Tail(chars))

\* the value is put between quotes as it is
QuoteUnescaped(chars) == <<"\"">> \o chars \o <<"\"">>

\* fmt.Sprintf("%q", v)
Quote(chars) == <<"\"">> \o Escape(chars) \o <<"\"">>

RECURSIVE WriteLine(_, _)
\* transform: tsvOutput after columns n.. of the line: a tab before every
\* column but the first, then the quoted value
WriteLine(line, n) ==
    IF n > Len(line) THEN <<>>
    ELSE (IF n # 1 THEN <<"\t">> ELSE <<>>)
            \o Quote(Chars(line[n].quoted)) \o WriteLine(line, n + 1)

\* nothing handed to Consume yet
TransformerInit ==
    tx = [state |-> "idle", event |-> MixpanelEvent("", PropsNoID, "", 0), request |-> <<>>,
          text |-> <<>>, formatted |-> FALSE, temp |-> <<>>]

\* a worker calls Consume(event)
TransformerCall(event) ==
    /\ TransformerOnly
    /\ tx.state = "idle"
    /\ tx' = [tx EXCEPT !.state = "called", !.event = event]
    /\ UNCHANGED rl

\* transform gets as far as formatting the columns: the event has a name and
\* a schema, and its properties decode to a map
ReachesFormat(event) ==
    /\ event.Failure = None
    /\ event.Event # ""
    /\ event.Event \in DOMAIN SchemaColumns
    /\ DecodeProperties(event.Properties).ok
    /\ ~DecodeProperties(event.Properties).isNil

\* Consume returns its WriteRequest (text is the characters of its Line when
\* transform made one; temp is the map the columns were formatted from), or
\* panics
TransformerConsume ==
    /\ TransformerOnly
    /\ tx.state = "called"
    /\ tx' = IF tx.event.Failure = None /\ TransformPanics(tx.event)
             THEN [tx EXCEPT !.state = "panicked"]
             ELSE [tx EXCEPT !.state = "returned",
                             !.request = Consume(tx.event),
                             !.text = IF Consume(tx.event).Failure \in {None, SkippedColumn}
                                      THEN WriteLine(Consume(tx.event).Line, 1)
                                      ELSE <<>>,
                             !.formatted = ReachesFormat(tx.event),
                             !.temp = IF ReachesFormat(tx.event)
                                      THEN InjectServerFields(
                                               DecodeProperties(tx.event.Properties).map,
                                               tx.event)
                                      ELSE <<>>]
    /\ UNCHANGED rl

NextTransformer ==
    \/ \E event \in ConsumeEvents : TransformerCall(event)
    \/ TransformerConsume

(***************************************************************************)
(* The userIDWithMapping transformer (genLoginToIDTransformer)             *)
(***************************************************************************)
\* the logins the caches and the fetcher know of
Logins == {"kappa", "other"}

\* no entry under a key of a cache
Missing == "missing"

\* the target column's value (args[0]) and the supporting column's (args[1])
\* as Format passes them: nil when the event has no such property
MappingTargets ==
    { [t |-> "nil", v |-> ""], [t |-> "number", v |-> "7"], [t |-> "number", v |-> "1.5"],
      [t |-> "string", v |-> "12"], [t |-> "string", v |-> "abc"] }

MappingLogins ==
    { [t |-> "nil", v |-> ""], [t |-> "number", v |-> "7"], [t |-> "string", v |-> ""],
      [t |-> "string", v |-> "  "], [t |-> "string", v |-> "kappa"],
      [t |-> "string", v |-> " kappa "] }

\* a cache: what it holds, and whether its calls succeed at all
Caches ==
    { [entries |-> [l \in Logins |-> IF l = "kappa" THEN e ELSE Missing], up |-> u] :
        e \in {Missing, "42", ""}, u \in BOOLEAN }

\* what Fetcher.FetchInt64 can return: the id 9, or one of its errors
FetchOutcomes ==
    { "nil", "lookup.ErrTooManyRequests", "lookup.ErrExtractingValue", "transport" }

\* safeParseInt: a json.Number or a string that is an int64; anything else
\* is an error
safeParseInt(value) ==
    IF value.t \in {"number", "string"} /\ value.v \in {"7", "12"}
    THEN [err |-> "nil", int |-> value.v]
    ELSE [err |-> "error", int |-> "0"]

\* strings.TrimSpace on the logins of the model
TrimSpace(str) ==
    CASE str = "  "      -> ""
      [] str = " kappa " -> "kappa"
      [] OTHER           -> str

\* StringCache.Get: the value, or an error when there is none or the cache
\* cannot be reached
CacheGet(cache, key) ==
    IF cache.up /\ cache.entries[key] # Missing
    THEN [err |-> "nil", value |-> cache.entries[key]]
    ELSE [err |-> "error", value |-> ""]

\* StringCache.Set: the cache afterwards, and the error when it cannot be reached
CacheSet(cache, key, value) ==
    IF cache.up
    THEN [err |-> "nil", cache |-> [cache EXCEPT !.entries[key] = value]]
    ELSE [err |-> "error", cache |-> cache]

\* no call made yet
MappingInit ==
    lk = [ pc |-> "idle", arg0 |-> [t |-> "nil", v |-> ""], arg1 |-> [t |-> "nil", v |-> ""],
           login |-> "", local |-> [entries |-> [l \in Logins |-> Missing], up |-> TRUE],
           remote |-> [entries |-> [l \in Logins |-> Missing], up |-> TRUE],
           local0 |-> [entries |-> [l \in Logins |-> Missing], up |-> TRUE],
           remote0 |-> [entries |-> [l \in Logins |-> Missing], up |-> TRUE],
           cached |-> "", fetched |-> "none", calls |-> <<>>,
           value |-> "", err |-> "nil", skipped |-> FALSE, stats |-> {},
           round |-> 1, first |-> [fetched |-> "none", err |-> "nil"] ]

MappingOnly == UNCHANGED <<bvars, gvars, pvars, mvars, rl, tx, cl, dl, ps, kp>>

\* the transformer returns (value, err) to Format
MappingReturn(l, value, err) ==
    [l EXCEPT !.pc = "returned", !.value = value, !.err = err]

\* Format calls the transformer with the two arguments, the caches being in
\* some state
MappingCall(arg0, arg1, local, remote) ==
    /\ MappingOnly
    /\ lk.pc = "idle"
    /\ lk' = [lk EXCEPT !.pc = "parse", !.arg0 = arg0, !.arg1 = arg1,
                        !.local = local, !.remote = remote,
                        !.local0 = local, !.remote0 = remote]

\* up to the first cache call: the id is there already, or the login is not
\* a string, or it is empty once trimmed
MappingParse ==
    /\ MappingOnly
    /\ lk.pc = "parse"
    /\ lk' = IF safeParseInt(lk.arg0).err = "nil"
             THEN MappingReturn(lk, safeParseInt(lk.arg0).int, "ErrIDSet")
             ELSE IF lk.arg1.t # "string"
             THEN MappingReturn(lk, "", "ErrBadLookupValue")
             ELSE IF TrimSpace(lk.arg1.v) = ""
             THEN MappingReturn(lk, "", "ErrEmptyLookupValue")
             ELSE [lk EXCEPT !.pc = "localGet", !.login = TrimSpace(lk.arg1.v)]

\* an empty string found under the key is taken for a miss
GetHitNotEmpty(r) == r.err = "nil" /\ r.value # ""

\* a Get found the value: it returned no error
GetHit(r) == r.err = "nil"

\* config.LocalCache.Get(login)
MappingLocalGet ==
    /\ MappingOnly
    /\ lk.pc = "localGet"
    /\ LET r == CacheGet(lk.local, lk.login)
           l == [lk EXCEPT !.calls = Append(@, [op |-> "LocalCache.Get", key |-> lk.login,
                                                 value |-> r.value, err |-> r.err])]
       IN lk' = IF GetHit(r)
                THEN MappingReturn(l, r.value, "ErrLocalCacheHit")
                ELSE [l EXCEPT !.pc = "remoteGet"]

\* config.RemoteCache.Get(login)
MappingRemoteGet ==
    /\ MappingOnly
    /\ lk.pc = "remoteGet"
    /\ LET r == CacheGet(lk.remote, lk.login)
           l == [lk EXCEPT !.calls = Append(@, [op |-> "RemoteCache.Get", key |-> lk.login,
                                                 value |-> r.value, err |-> r.err])]
       IN lk' = IF GetHit(r)
                THEN [l EXCEPT !.pc = "remoteHit", !.cached = r.value]
                ELSE [l EXCEPT !.pc = "fetch"]

\* the value found in the remote cache is not copied
RemoteHitCopiesNothing(l) == l

\* a remote hit: config.LocalCache.Set(login, cachedID), its error ignored
RemoteHitCopies(l) ==
    LET r == CacheSet(l.local, l.login, l.cached)
    IN [l EXCEPT !.local = r.cache,
                 !.calls = Append(@, [op |-> "LocalCache.Set", key |-> l.login,
                                      value |-> l.cached, err |-> r.err])]

MappingRemoteHit ==
    /\ MappingOnly
    /\ lk.pc = "remoteHit"
    /\ lk' = MappingReturn(RemoteHitCopies(lk), lk.cached, "ErrRemoteCacheHit")

\* every fetch error is cached
NegativelyCachedAlways(err) == TRUE

\* the fetch error after which the empty string is cached
NegativelyCached(err) == err = "lookup.ErrExtractingValue"

\* config.Fetcher.FetchInt64(fetchArgs) returns the id 9 or an error
MappingFetch(outcome) ==
    /\ MappingOnly
    /\ lk.pc = "fetch"
    /\ LET l == [lk EXCEPT !.fetched = outcome,
                           !.calls = Append(@, [op |-> "Fetcher.FetchInt64", key |-> lk.login,
                                                value |-> IF outcome = "nil" THEN "9" ELSE "",
                                                err |-> outcome])]
       IN lk' = IF outcome # "nil"
                THEN IF NegativelyCached(outcome)
                     THEN [l EXCEPT !.pc = "negative"]
                     ELSE MappingReturn(l, "", "ErrFetchFailure")
                ELSE [l EXCEPT !.pc = "store"]

\* LocalCache.Set and RemoteCache.Set of a value under the login; the error
\* of the local Set is ignored
SetBoth(l, value) ==
    LET rlocal == CacheSet(l.local, l.login, value)
        rremote == CacheSet(l.remote, l.login, value)
    IN [ l |-> [l EXCEPT !.local = rlocal.cache, !.remote = rremote.cache,
                         !.calls = @ \o << [op |-> "LocalCache.Set", key |-> l.login,
                                            value |-> value, err |-> rlocal.err],
                                           [op |-> "RemoteCache.Set", key |-> l.login,
                                            value |-> value, err |-> rremote.err] >>],
         err |-> rremote.err ]

\* the fetcher could not extract a value: the empty string is cached under
\* the login, and the fetch has failed
MappingNegativeCache ==
    /\ MappingOnly
    /\ lk.pc = "negative"
    /\ lk' = MappingReturn(SetBoth(lk, "").l, "", "ErrFetchFailure")

\* the fetch is a success whatever RemoteCache.Set returned
StoredAlwaysSuccess(err) == "ErrFetchSuccess"

\* the error returned with the fetched id, err being what RemoteCache.Set
\* returned
Stored(err) ==
    IF err # "nil" THEN "ErrCacheSetFailure" ELSE "ErrFetchSuccess"

\* the fetched id is cached; a remote Set that failed is reported with the id
MappingStore ==
    /\ MappingOnly
    /\ lk.pc = "store"
    /\ LET r == SetBoth(lk, "9")
       IN lk' = MappingReturn(r.l, "9", Stored(r.err))

\* transform counts the outcome of the column
MappingCount ==
    /\ MappingOnly
    /\ lk.pc = "returned"
    /\ lk' = [lk EXCEPT !.pc = "counted",
                        !.skipped = ColumnOutcome(lk.err).skipped,
                        !.stats = ColumnOutcome(lk.err).stats]

\* the local cache between two calls: as it was, or, when its entry for the
\* login has expired meanwhile, without it
Expired(cache, login) ==
    { cache, [cache EXCEPT !.entries[login] = Missing] }

\* a later event has the same two arguments: Format calls the transformer
\* again, with the caches as the first call and time left them
MappingAgain ==
    /\ MappingOnly
    /\ lk.pc = "counted" /\ lk.round = 1
    /\ \E local \in Expired(lk.local, TrimSpace(lk.arg1.v)) :
          lk' = [lk EXCEPT !.pc = "parse", !.round = 2,
                           !.first = [fetched |-> lk.fetched, err |-> lk.err],
                           !.local = local, !.local0 = local, !.remote0 = lk.remote,
                           !.login = "", !.cached = "", !.fetched = "none",
                           !.calls = <<>>, !.value = "", !.err = "nil",
                           !.skipped = FALSE, !.stats = {}]

NextMapping ==
    \/ MappingAgain
    \/ \E arg0 \in MappingTargets, arg1 \in MappingLogins, local \in Caches, remote \in Caches :
          MappingCall(arg0, arg1, local, remote)
    \/ MappingParse
    \/ MappingLocalGet
    \/ MappingRemoteGet
    \/ MappingRemoteHit
    \/ \E outcome \in FetchOutcomes : MappingFetch(outcome)
    \/ MappingNegativeCache
    \/ MappingStore
    \/ MappingCount

(***************************************************************************)
(* transform: the loop over the columns                                    *)
(***************************************************************************)
\* the event whose columns are formatted
ColumnsEvent == MixpanelEvent("login", PropsFull, "uuid1", 1)

\* the loop has not been reached
ColumnsInit ==
    cl = [ pc |-> "idle", ncols |-> 0, errs |-> <<>>, line |-> <<>>,
           results |-> [stat \in {} |-> 0], possibleError |-> "nil", failure |-> None ]

ColumnsOnly == UNCHANGED <<bvars, gvars, pvars, mvars, rl, tx, lk, dl, ps, kp>>

\* transform has decoded the properties of an event whose schema has ncols
\* columns, and made results
ColumnsStart(ncols) ==
    /\ ColumnsOnly
    /\ cl.pc = "idle"
    /\ cl' = [cl EXCEPT !.pc = "loop", !.ncols = ncols]

\* results[stat]++ for each of the stats
Incr(results, stats) ==
    [stat \in DOMAIN results \cup stats |->
        (IF stat \in DOMAIN results THEN results[stat] ELSE 0)
      + (IF stat \in stats THEN 1 ELSE 0)]

\* the loop ends at the first column that is skipped
RangeEndsAtSkip(c) == Len(c.errs) = c.ncols \/ c.possibleError # "nil"

\* the range over the columns has come to its end
RangeEnds(c) == Len(c.errs) = c.ncols

\* one turn of the loop: Format returns (v, err) for the next column, the
\* outcome is counted, and the quoted value is written to the line
ColumnsFormat(v, err) ==
    /\ ColumnsOnly
    /\ cl.pc = "loop"
    /\ ~RangeEnds(cl)
    /\ LET o == ColumnOutcome(err)
       IN cl' = [cl EXCEPT
                   !.errs = Append(@, err),
                   !.results = Incr(@, o.stats \cup (IF o.skipped THEN {"skippedColumn"} ELSE {})),
                   !.possibleError = IF o.skipped THEN "ErrSkippedColumn" ELSE @,
                   !.line = Append(@, [quoted |-> v])]

\* what Format returns with an error: the transformers return the empty
\* string with an error that skips the column, and a value otherwise
FormatResults ==
    { [v |-> IF ColumnOutcome(err).skipped THEN "" ELSE "FFFF", err |-> err] :
        err \in FormatErrors }

\* after the loop transform returns the line and possibleError, and Consume
\* makes the request
ColumnsReturn ==
    /\ ColumnsOnly
    /\ cl.pc = "loop"
    /\ RangeEnds(cl)
    /\ cl' = [cl EXCEPT
                !.pc = "returned",
                !.failure = ConsumeTransformed(ColumnsEvent,
                                [line |-> cl.line, err |-> cl.possibleError]).Failure]

NextColumns ==
    \/ \E ncols \in 1..MaxColumns : ColumnsStart(ncols)
    \/ \E r \in FormatResults : ColumnsFormat(r.v, r.err)
    \/ ColumnsReturn

(***************************************************************************)
(* eventmetadata.DynamicLoader                                             *)
(***************************************************************************)
\* the n that NewDynamicLoader and Crank pass to retryPull
RetryAttempts == 5

\* scoop_protocol.EventMetadataConfig{}: no Metadata
ZeroConfig == [event \in {} |-> <<>>]

\* the Metadata the fetcher serves: event name -> metadata type -> value
ConfigA ==
    [login |-> [edge_type |-> "internal", comment |-> "a"]]
ConfigB ==
    [login |-> [edge_type |-> "external"], foo |-> [comment |-> "b"]]

\* what one call of pullConfigIn can meet: Fetch fails, ReadAll fails, the
\* body is not JSON, or the body is one of the configs
PullOutcomes == {"fetchErr", "readErr", "badJSON", "A", "B"}

\* pullConfigIn: the config and the error
pullConfigIn(outcome) ==
    CASE outcome = "A" -> [config |-> ConfigA, err |-> "nil"]
      [] outcome = "B" -> [config |-> ConfigB, err |-> "nil"]
      [] OTHER         -> [config |-> ZeroConfig, err |-> outcome]

\* the metadata types GetMetadataValueByType accepts, and the arguments of
\* the model's reads
MetadataTypes == {"comment", "edge_type"}
ReadEvents == {"login", "foo"}
ReadTypes == {"comment", "edge_type", "birth"}

\* GetMetadataValueByType on a Metadata map
Lookup(metadata, eventName, metadataType) ==
    IF metadataType \notin MetadataTypes
    THEN [value |-> "", err |-> "ErrInvalidMetadataType"]
    ELSE IF eventName \in DOMAIN metadata /\ metadataType \in DOMAIN metadata[eventName]
    THEN [value |-> metadata[eventName][metadataType], err |-> "nil"]
    ELSE [value |-> "", err |-> "Not found"]

\* no loader yet
LoaderInit ==
    dl = [ pc |-> "none", crank |-> "none", i |-> 0, fetches |-> 0, failures |-> 0,
           failedTicks |-> 0,
           configs |-> ZeroConfig, newConfig |-> ZeroConfig, before |-> ZeroConfig,
           lastGood |-> ZeroConfig, ticks |-> 0, lastTick |-> "none",
           closing |-> FALSE, reads |-> 0,
           read |-> [eventName |-> "", metadataType |-> "", answer |-> [value |-> "", err |-> "nil"],
                     old |-> ZeroConfig, new |-> ZeroConfig, during |-> "none"] ]

LoaderOnly == UNCHANGED <<bvars, gvars, pvars, mvars, rl, tx, lk, cl, ps, kp>>

\* NewDynamicLoader, up to its call of retryPull
LoaderNew ==
    /\ LoaderOnly
    /\ dl.pc = "none"
    /\ dl' = [dl EXCEPT !.pc = "constructing", !.i = 1, !.fetches = 0, !.failures = 0]

\* retryPull gives up one attempt early
RetryExhaustedEarly(i, n) == i > n - 1

\* retryPull: the loop for i := 1; i <= n; i++ is over
RetryExhausted(i, n) == i > n

\* NewDynamicLoader: one turn of retryPull's loop, and what follows it when
\* the loop ends: the config is installed and the loader returned, or the
\* error is returned and no loader
LoaderNewPull(outcome) ==
    /\ LoaderOnly
    /\ dl.pc = "constructing"
    /\ LET r == pullConfigIn(outcome)
           d == [dl EXCEPT !.fetches = @ + 1, !.i = @ + 1,
                           !.failures = IF r.err = "nil" THEN @ ELSE @ + 1]
       IN dl' = IF r.err = "nil"
                THEN [d EXCEPT !.pc = "ready", !.configs = r.config, !.lastGood = r.config]
                ELSE IF RetryExhausted(d.i, RetryAttempts)
                THEN [d EXCEPT !.pc = "failed"]
                ELSE d

\* the caller starts Crank in a goroutine; the ticker is made
LoaderCrank ==
    /\ LoaderOnly
    /\ dl.pc = "ready" /\ dl.crank = "none"
    /\ dl' = [dl EXCEPT !.crank = "select"]

\* Crank: case <-tick.C, up to its call of retryPull
LoaderTick ==
    /\ LoaderOnly
    /\ dl.crank = "select"
    /\ dl.ticks < MaxTicks
    /\ dl' = [dl EXCEPT !.crank = "pulling", !.i = 1, !.fetches = 0, !.failures = 0,
                        !.ticks = @ + 1,
                        !.before = dl.configs, !.lastTick = "none"]

\* after a refresh that failed the config retryPull returned is stored
RefreshFailedStores(d, config) == [d EXCEPT !.configs = config]

\* Crank: retryPull returned an error: config.error is timed, and continue
RefreshFailedKeeps(d, config) == d

\* Crank: one turn of retryPull's loop, and what follows it when the loop
\* ends: newConfig is about to be assigned, or the error is logged
LoaderCrankPull(outcome) ==
    /\ LoaderOnly
    /\ dl.crank = "pulling"
    /\ LET r == pullConfigIn(outcome)
           d == [dl EXCEPT !.fetches = @ + 1, !.i = @ + 1,
                           !.failures = IF r.err = "nil" THEN @ ELSE @ + 1]
       IN dl' = IF r.err = "nil"
                THEN [d EXCEPT !.crank = "storing", !.newConfig = r.config,
                               !.lastGood = r.config]
                ELSE IF RetryExhausted(d.i, RetryAttempts)
                THEN [RefreshFailedKeeps(d, r.config) EXCEPT !.crank = "select",
                                                             !.lastTick = "failed",
                                                             !.failedTicks = @ + 1]
                ELSE d

\* Crank: d.configs = newConfig, a plain assignment
LoaderStore ==
    /\ LoaderOnly
    /\ dl.crank = "storing"
    /\ dl' = [dl EXCEPT !.crank = "select", !.configs = dl.newConfig,
                        !.lastTick = "succeeded"]

\* Close is called: its caller is at d.closer <- true, a send on a channel
\* without a buffer, until Crank receives
LoaderClose ==
    /\ LoaderOnly
    /\ dl.pc = "ready" /\ ~dl.closing
    /\ dl' = [dl EXCEPT !.closing = TRUE]

\* Close returns and Crank goes on selecting
CrankIgnoresCloser(d) ==
    [d EXCEPT !.pc = "closed", !.closing = FALSE]

\* Crank: case <-d.closer: return; the send of Close is over and Close returns
CrankReceivesCloser(d) ==
    [d EXCEPT !.crank = "returned", !.pc = "closed", !.closing = FALSE]

\* Crank's select takes the value Close is sending
LoaderCrankClosed ==
    /\ LoaderOnly
    /\ dl.crank = "select" /\ dl.closing
    /\ dl' = CrankReceivesCloser(dl)

\* a Metadata map of which only the entries of some events can be seen yet
Partial(metadata) ==
    { [event \in S |-> metadata[event]] : S \in (SUBSET DOMAIN metadata) \ {DOMAIN metadata} }

\* what a read of d.configs.Metadata by another goroutine can see.  Nothing
\* orders the read with Crank's assignment or with the writes that filled the
\* new map (no lock, no atomic, no channel), so while the assignment is under
\* way the read sees the map before it, the map after it, or the new map
\* before all of its entries can be seen.
Views ==
    IF dl.crank = "storing"
    THEN {dl.configs, dl.newConfig} \cup Partial(dl.newConfig)
    ELSE {dl.configs}

\* GetMetadataValueByType(eventName, metadataType), called by a transformer
\* while Crank runs
LoaderGet(eventName, metadataType) ==
    /\ LoaderOnly
    /\ dl.pc = "ready" /\ dl.crank # "none"
    /\ dl.reads < MaxReads
    /\ \E view \in Views :
          dl' = [dl EXCEPT
                   !.reads = @ + 1,
                   !.read = [eventName |-> eventName, metadataType |-> metadataType,
                             answer |-> Lookup(view, eventName, metadataType),
                             old |-> dl.configs,
                             new |-> IF dl.crank = "storing" THEN dl.newConfig
                                     ELSE dl.configs,
                             during |-> dl.crank]]

NextLoader ==
    \/ LoaderNew
    \/ \E outcome \in PullOutcomes : LoaderNewPull(outcome)
    \/ LoaderCrank
    \/ LoaderTick
    \/ \E outcome \in PullOutcomes : LoaderCrankPull(outcome)
    \/ LoaderStore
    \/ LoaderClose
    \/ LoaderCrankClosed
    \/ \E eventName \in ReadEvents, metadataType \in ReadTypes :
          LoaderGet(eventName, metadataType)

(***************************************************************************)
(* consumer.KinesisPipe: crank and Close                                   *)
(***************************************************************************)
\* how many times crank calls kinsumer.Next
MaxNext == 4

\* what kinsumer.Next returns: a record, an error, or nil and nil once the
\* kinsumer was stopped
NextOutcomes == {"record", "error", "nil"}

\* nothing held by crank
NoResult == "none"

\* no pipe yet
PipeInit ==
    kp = [ pc |-> "none",          \* none | run | stopped | waiting | closed
           crank |-> "none",       \* none | next | select | exited
           held |-> NoResult,      \* the Result crank is about to send
           stopped |-> FALSE,      \* kinsumer.Stop() was called
           closer |-> "open",      \* the closer channel: open | closed
           channel |-> "open",     \* the channel of Results: open | closed
           wg |-> 0,               \* the embedded sync.WaitGroup's counter
           calls |-> 0,            \* calls of kinsumer.Next
           taken |-> 0,            \* records Next has returned
           delivered |-> 0,        \* Results received from the channel
           records |-> 0,          \* those of them that carry a record
           discarded |-> 0 ]       \* records crank held when it returned

PipeOnly == UNCHANGED <<bvars, gvars, pvars, mvars, rl, tx, lk, cl, dl, ps>>

\* NewKinesisPipe, once the kinsumer runs: the two channels, Add(1), and the
\* goroutine that runs crank and then Done
PipeNew ==
    /\ PipeOnly
    /\ kp.pc = "none"
    /\ kp' = [kp EXCEPT !.pc = "run", !.crank = "next", !.wg = 1]

\* crank: d, err := c.kinsumer.Next() returns; while the kinsumer runs and
\* has no record the call blocks
PipeNext(outcome) ==
    /\ PipeOnly
    /\ kp.crank = "next"
    /\ kp.calls < MaxNext
    /\ outcome = "nil" => kp.stopped
    /\ kp' = [kp EXCEPT !.crank = "select", !.held = outcome, !.calls = @ + 1,
                        !.taken = IF outcome = "record" THEN @ + 1 ELSE @]

\* crank: case c.send <- &Result{Data: d, Error: err}, a reader being at the
\* other end of the channel
PipeSend ==
    /\ PipeOnly
    /\ kp.crank = "select"
    /\ kp' = [kp EXCEPT !.crank = "next", !.held = NoResult,
                        !.delivered = @ + 1,
                        !.records = IF kp.held = "record" THEN @ + 1 ELSE @]

\* crank: case <-c.closer: return, and the deferred c.Done()
PipeCrankReturn ==
    /\ PipeOnly
    /\ kp.crank = "select"
    /\ kp.closer = "closed"
    /\ kp' = [kp EXCEPT !.crank = "exited", !.held = NoResult, !.wg = @ - 1,
                        !.discarded = IF kp.held = "record" THEN @ + 1 ELSE @]

\* Close: c.kinsumer.Stop()
PipeStop ==
    /\ PipeOnly
    /\ kp.pc = "run"
    /\ kp' = [kp EXCEPT !.pc = "stopped", !.stopped = TRUE]

\* Close: close(c.closer)
PipeCloseCloser ==
    /\ PipeOnly
    /\ kp.pc = "stopped"
    /\ kp' = [kp EXCEPT !.pc = "waiting", !.closer = "closed"]

\* Close: c.Wait() returns at once
PipeWaitIsOverAnytime(k) == TRUE

\* Close: c.Wait() returns when the counter is zero
PipeWaitIsOver(k) == k.wg = 0

\* Close: c.Wait() has returned, and Close returns
PipeCloseReturn ==
    /\ PipeOnly
    /\ kp.pc = "waiting"
    /\ PipeWaitIsOver(kp)
    /\ kp' = [kp EXCEPT !.pc = "closed"]

NextPipe ==
    \/ PipeNew
    \/ \E outcome \in NextOutcomes : PipeNext(outcome)
    \/ PipeSend
    \/ PipeCrankReturn
    \/ PipeStop
    \/ PipeCloseCloser
    \/ PipeCloseReturn

(***************************************************************************)
(* Specifications                                                          *)
(***************************************************************************)
\* nothing constructed yet; the flate writer does not fail
Init ==
    /\ BatcherInit
    /\ GlobberInit
    /\ PoolInit
    /\ MulteeInit
    /\ LimiterInit
    /\ TransformerInit
    /\ MappingInit
    /\ ColumnsInit
    /\ LoaderInit
    /\ ShutdownInit
    /\ PipeInit

\* nothing constructed yet; the flate writer's Write or Close can fail
InitFaulty ==
    /\ BatcherInit
    /\ GlobberFaultyInit
    /\ PoolInit
    /\ MulteeInit
    /\ LimiterInit
    /\ TransformerInit
    /\ MappingInit
    /\ ColumnsInit
    /\ LoaderInit
    /\ ShutdownInit
    /\ PipeInit

SpecBatcher == Init /\ [][NextBatcher]_vars

\* the worker is scheduled whenever it can run, the runtime fires an armed
\* timer, and the completor returns; the caller is free to stop calling
FairSpecBatcher ==
    /\ SpecBatcher
    /\ WF_vars(BatcherWorker)
    /\ WF_vars(BatcherTimerFire)
    /\ WF_vars(BatcherCompletorReturn)

SpecGlobber == Init /\ [][NextGlobber]_vars

SpecGlobberFaulty == InitFaulty /\ [][NextGlobber]_vars

\* One aggregator of either kind. A Batcher and a Globber share no state, so a
\* property of each that holds when it runs alone holds when both run.
NextAggregator ==
    \/ g.state = "none" /\ NextBatcher
    \/ b.state = "none" /\ NextGlobber

SpecAggregators == Init /\ [][NextAggregator]_vars

SpecPool == Init /\ [][NextPool]_vars

SpecShutdown == Init /\ [][NextShutdown]_vars

SpecMultee == Init /\ [][NextMultee]_vars

SpecLimiter == Init /\ [][NextLimiter]_vars

SpecTransformer == Init /\ [][NextTransformer]_vars

SpecMapping == Init /\ [][NextMapping]_vars

SpecColumns == Init /\ [][NextColumns]_vars

SpecLoader == Init /\ [][NextLoader]_vars

SpecPipe == Init /\ [][NextPipe]_vars

\* the goroutine of Crank runs when it can; a select with several cases ready
\* chooses among them at random, so a send of Close that stays ready is taken
\* in the end
FairSpecLoader ==
    /\ SpecLoader
    /\ WF_vars(\E outcome \in PullOutcomes : LoaderCrankPull(outcome))
    /\ WF_vars(LoaderStore)
    /\ SF_vars(LoaderCrankClosed)

(***************************************************************************)
(* Claims about the Batcher                                                *)
(***************************************************************************)
\* C3: with a single submitter, the batches handed to the completor,
\* concatenated in the order they were handed over, are always a prefix of the
\* submitted entries, and once Close has returned they are exactly the
\* submitted entries (so the bytes emitted are the bytes submitted).
C3_BatchesConcatenateToSubmitted ==
    /\ IsPrefix(Flatten(bc.calls), bc.submitted)
    /\ bc.pc = "closed" =>
          /\ Flatten(bc.calls) = bc.submitted
          /\ TotalBytes(Flatten(bc.calls)) = TotalBytes(bc.submitted)

C3_Witness ==
    /\ bc.pc = "closed"
    /\ Len(bc.calls) >= 2
    /\ Len(bc.calls[1]) >= 2
    /\ Len(bc.submitted) = 3

\* C5: once Close has returned, the worker has exited, the queue is drained and
\* the pending batch handed over (every submitted entry is in a batch), every
\* completor call has returned, and no completor call was made since.
C5_CloseReturnsAfterFlush ==
    bc.pc = "closed" =>
        /\ bw.pc = "done"
        /\ b.incoming = <<>>
        /\ b.pending = <<>>
        /\ Len(Flatten(bc.calls)) = Len(bc.submitted)
        /\ bc.returned = Len(bc.calls)
        /\ bc.calls = bc.atClose

C5_Witness ==
    /\ bc.pc = "closed"
    /\ bc.returned >= 2
    /\ Len(bc.submitted) >= 2

\* C6: whenever the worker waits with a nonempty pending batch, the age timer
\* is armed or its tick is waiting; and with the worker scheduled, the timer
\* firing and the completor returning, the n-th accepted entry is eventually
\* handed to the completor, whether or not the caller submits or closes again.
C6_AgeFlushDeliversEveryEntry ==
    /\ [](b.pending # <<>> /\ bw.pc = "select" => b.timerArmed \/ b.timerC)
    /\ \A n \in 1..MaxSubmit :
          (Len(bc.submitted) >= n) ~> (Len(Flatten(bc.calls)) >= n)

C6_Witness ==
    /\ bw.pc = "completor"
    /\ bw.from = "timer"
    /\ ~b.closed
    /\ Len(bc.calls) >= 2

\* C7: the combined byte size of the entries of every batch handed to the
\* completor is at most MaxSize.
C7_BatchWithinMaxSize ==
    \A i \in 1..Len(bc.calls) : TotalBytes(bc.calls[i]) <= b.config.MaxSize

NonPositiveConfig(c) ==
    \/ c.MaxSize <= 0
    \/ ParseDuration(c.MaxAge).err
    \/ ParseDuration(c.MaxAge).d <= 0
    \/ c.BufferLength <= 0

\* C8: batcher.New returns an error and starts no worker for every config with
\* MaxSize <= 0, MaxAge <= 0 or BufferLength <= 0, and succeeds only when all
\* three are positive.
C8_NewRejectsNonPositiveConfig ==
    bc.pc # "new" =>
        /\ NonPositiveConfig(bc.config) => b.state = "error" /\ bw.pc = "none"
        /\ b.state = "running" => ~NonPositiveConfig(bc.config)

(***************************************************************************)
(* Claims about the Globber                                                *)
(***************************************************************************)
\* a glob is the version byte followed by the deflate stream of
\* '[' + its entries joined by ',' + ']', and holds at least one entry
WellFramed(glob) ==
    LET d == DecodeGlob(glob) IN
    /\ d.ok
    /\ d.items # <<>>
    /\ glob = <<version>> \o Deflate(<<prefix>> \o Join(d.items) \o <<postfix>>)

\* C4: no completor call of a Batcher carries an empty batch, and every glob a
\* Globber hands over decodes to at least one entry, whatever the interleaving
\* of Submit, timer expiry and Close.
C4_NoEmptyAggregate ==
    /\ \A i \in 1..Len(bc.calls) :
          /\ bc.calls[i] # <<>>
          /\ \A j \in 1..Len(bc.calls[i]) : bc.calls[i][j] \in BatchEntries
    /\ \A i \in 1..Len(gc.calls) :
          LET d == DecodeGlob(gc.calls[i]) IN
          /\ d.ok
          /\ d.items # <<>>
          /\ \A j \in 1..Len(d.items) : d.items[j] \in GlobEntries

\* a timer tick was taken while nothing was pending, in a Batcher or a Globber
C4_Witness ==
    \/ /\ bc.pc = "closed" /\ Len(bc.calls) >= 2 /\ ~b.timerArmed /\ ~b.timerC
    \/ /\ gc.pc = "closed" /\ Len(gc.calls) >= 2 /\ ~g.timerArmed /\ ~g.timerC

\* C9: every glob handed to the completor is well framed; the globs decoded in
\* emission order are always a prefix of the submitted entries, and exactly the
\* submitted entries once Close has returned.
C9_GlobsRoundTrip ==
    /\ \A i \in 1..Len(gc.calls) : WellFramed(gc.calls[i])
    /\ IsPrefix(DecodeAll(gc.calls), gc.submitted)
    /\ gc.pc = "closed" => DecodeAll(gc.calls) = gc.submitted

C9_Witness ==
    /\ gc.pc = "closed"
    /\ Len(gc.submitted) = 3
    /\ Len(gc.calls) = 2
    /\ Len(DecodeGlob(gc.calls[1]).items) = 2

\* C10: after a failed compression the pending buffer is empty and nothing was
\* handed over for that glob, the worker keeps running, and every glob handed
\* over, also after a failure, is well framed.
C10_FailedGlobIsDropped ==
    /\ gw.failed => g.pending = <<>>
    /\ gw.failed => gw.pc \in {"select", "done"}
    /\ \A i \in 1..Len(gc.calls) : WellFramed(gc.calls[i])

\* C29: when add finds that its entry would take a nonempty buffer over
\* MaxSize, the glob handed to the completor holds entries submitted before
\* that entry and not the entry itself: the globs handed over so far decode to
\* all the entries submitted before it, and it is the next one.  When the
\* completor has returned, the buffer holds the prefix and that entry and
\* nothing else, so the entry is the first element of the next glob.
C29_OverflowStartsNextGlob ==
    /\ [](gw.pc = "completor" /\ gw.from = "add" =>
            LET emitted == DecodeAll(gc.calls)
                last == DecodeGlob(gc.calls[Len(gc.calls)])
            IN /\ last.ok /\ last.items # <<>>
               /\ IsPrefix(emitted, gc.submitted)
               /\ Len(emitted) < Len(gc.submitted)
               /\ gc.submitted[Len(emitted) + 1] = gw.entry
               /\ Len(gw.entry) + Len(Join(last.items)) + 1 > g.config.MaxSize)
    /\ [][gw.pc = "completor" /\ gw.from = "add" /\ gw'.pc # "completor" =>
            /\ g'.pending = <<prefix>> \o gw.entry
            /\ gc'.calls = gc.calls]_vars

\* the entry [7,8] did not fit after 7 and {}: the glob handed over holds 7
\* and {}
C29_Witness ==
    /\ gw.pc = "completor" /\ gw.from = "add"
    /\ gw.entry = <<"[", "7", ",", "8", "]">>
    /\ DecodeGlob(gc.calls[Len(gc.calls)]).items = << <<"7">>, <<"{", "}">> >>

(***************************************************************************)
(* Claims about the Multee                                                 *)
(***************************************************************************)
\* the writers of a target map
Writers(targets) == {targets[k] : k \in Present(targets)}

\* where a goroutine is while it holds the lock exclusively, and for reading
Exclusive == {"add", "lookup", "spawn", "delete", "assign", "unlock", "closing", "range"}
Reading == {"iter"}

\* the closing goroutines a call has started
TasksOf(id) == {task \in mk : task.by = id}

\* C11: a Write calls Write only on writers that were in the target map when
\* it acquired the shared lock, on none of them twice, and when it returns it
\* has called every one of them, whatever the other goroutines did.
C11_WriteReachesLockedTargets ==
    \A p \in 1..NClients :
        mp[p].op = "Write" =>
            /\ mp[p].called \subseteq Writers(mp[p].atLock)
            /\ mp[p].ncalls = Cardinality(mp[p].called)
            /\ mp[p].pc = "returned" => mp[p].called = Writers(mp[p].atLock)

\* a Write has returned after forwarding to a target, and the target map has
\* been changed since by a later call
C11_Witness ==
    \E p, q \in 1..NClients :
        /\ mp[p].op = "Write" /\ mp[p].pc = "returned" /\ mp[p].ncalls = 1
        /\ mp[q].op \in {"Drop", "Replace"} /\ mp[q].pc = "returned"
        /\ mp[q].id > mp[p].id
        /\ mt.targets # mp[p].atLock

\* C12: while a goroutine is inside Add, Drop, Replace or Close, holding the
\* lock, no other goroutine is inside any of the six calls; and while a Write
\* or Rotate is ranging over the target map, the map is the one it found when
\* it acquired the lock. Write and Rotate calls are free to overlap.
C12_LockDiscipline ==
    /\ \A p, q \in 1..NClients :
          mp[p].pc \in Exclusive /\ p # q => mp[q].pc \notin (Exclusive \cup Reading)
    /\ \A p \in 1..NClients :
          mp[p].pc \in Reading => mt.targets = mp[p].atLock

\* a Write and a Rotate are ranging over a nonempty target map at the same time
C12_Witness ==
    \E p, q \in 1..NClients :
        /\ mp[p].op = "Write" /\ mp[p].pc = "iter"
        /\ mp[q].op = "Rotate" /\ mp[q].pc = "iter"
        /\ Present(mt.targets) # {}

\* C13: when Add returns, the target map is the one it found with key mapped
\* to the new writer if the key was absent, and the one it found if the key was
\* present; in neither case has Add started the closing of a writer.
C13_AddKeepsExistingWriter ==
    \A p \in 1..NClients :
        mp[p].op = "Add" /\ mp[p].pc = "returned" =>
            /\ mp[p].atUnlock =
                  IF mp[p].atLock[mp[p].key] = NoWriter
                  THEN [mp[p].atLock EXCEPT ![mp[p].key] = mp[p].id]
                  ELSE mp[p].atLock
            /\ mp[p].nspawned = 0
            /\ TasksOf(mp[p].id) = {}

\* an Add has returned from a key collision
C13_Witness ==
    \E p \in 1..NClients :
        /\ mp[p].op = "Add" /\ mp[p].pc = "returned"
        /\ mp[p].atLock[mp[p].key] # NoWriter
        /\ mp[p].atUnlock[mp[p].key] # mp[p].id

\* C14: when Drop returns from a present key, the target map is the one it
\* found without that key, and Drop has started exactly one goroutine, which
\* closes the removed writer (once: a goroutine calls Close one time); Drop
\* returns whether or not that Close has been called or has returned. When
\* Drop returns from an absent key, the map is the one it found and no
\* goroutine was started.
C14_DropClosesRemovedWriter ==
    \A p \in 1..NClients :
        mp[p].op = "Drop" /\ mp[p].pc = "returned" =>
            IF mp[p].atLock[mp[p].key] # NoWriter
            THEN /\ mp[p].atUnlock = [mp[p].atLock EXCEPT ![mp[p].key] = NoWriter]
                 /\ mp[p].nspawned = 1
                 /\ Cardinality(TasksOf(mp[p].id)) = 1
                 /\ \A task \in TasksOf(mp[p].id) : task.w = mp[p].atLock[mp[p].key]
            ELSE /\ mp[p].atUnlock = mp[p].atLock
                 /\ mp[p].nspawned = 0
                 /\ TasksOf(mp[p].id) = {}

\* a Drop of a present key has returned, another target is still registered,
\* and the removed writer's Close has not been called yet
C14_Witness ==
    \E p \in 1..NClients :
        /\ mp[p].op = "Drop" /\ mp[p].pc = "returned"
        /\ mp[p].atLock[mp[p].key] # NoWriter
        /\ Present(mp[p].atUnlock) # {}
        /\ \E task \in TasksOf(mp[p].id) : task.st = "spawned"

\* C15: while Replace is between its delete and its assignment no Write or
\* Rotate is ranging over the map. When Replace returns from a present key, the
\* map is the one it found with the key mapped to the new writer (same keys),
\* and Replace has started exactly one goroutine, which closes the old writer,
\* without waiting for it. No Write or Rotate calls both the old and the new
\* writer, none that acquired the lock after Replace calls the old one, and the
\* Write that acquired the lock next has called the new one when it returns.
C15_ReplaceIsAtomic ==
    \A p \in 1..NClients :
        mp[p].op = "Replace" =>
            LET old == mp[p].atLock[mp[p].key]
                new == mp[p].id
            IN /\ mp[p].pc \in {"delete", "assign"} =>
                      \A q \in 1..NClients : mp[q].pc \notin Reading
               /\ mp[p].pc = "returned" /\ old # NoWriter =>
                      /\ mp[p].atUnlock = [mp[p].atLock EXCEPT ![mp[p].key] = new]
                      /\ Present(mp[p].atUnlock) = Present(mp[p].atLock)
                      /\ mp[p].nspawned = 1
                      /\ Cardinality(TasksOf(new)) = 1
                      /\ \A task \in TasksOf(new) : task.w = old
                      /\ \A q \in 1..NClients :
                            mp[q].op \in {"Write", "Rotate"} =>
                                /\ ~({old, new} \subseteq mp[q].called)
                                /\ mp[q].id > new => old \notin mp[q].called
                                /\ mp[q].id = new + 1 /\ mp[q].pc = "returned"
                                      => new \in mp[q].called

\* a Replace of a present key has returned, the old writer's Close has not
\* returned, and the next Write has been forwarded to the new writer
C15_Witness ==
    \E p, q \in 1..NClients :
        /\ mp[p].op = "Replace" /\ mp[p].pc = "returned"
        /\ mp[p].atLock[mp[p].key] # NoWriter
        /\ \E task \in TasksOf(mp[p].id) : task.st # "returned"
        /\ mp[q].op = "Write" /\ mp[q].pc = "returned"
        /\ mp[q].id = mp[p].id + 1
        /\ mp[q].called = {mp[p].id}

\* C16: when Rotate returns it has called Rotate once on every writer that was
\* in the target map when it acquired the lock, also after a call that
\* returned an error or false; its result is true exactly when each of these
\* calls returned (true, nil), and its error is nil.
C16_RotateForwardsToAll ==
    \A p \in 1..NClients :
        mp[p].op = "Rotate" /\ mp[p].pc = "returned" =>
            /\ mp[p].called = Writers(mp[p].atLock)
            /\ mp[p].ncalls = Cardinality(mp[p].called)
            /\ mp[p].ret = (mp[p].firstBad = 0)
            /\ mp[p].err = "nil"

\* a Rotate has returned false after calling two writers, the first of which
\* did not return (true, nil)
C16_Witness ==
    \E p \in 1..NClients :
        /\ mp[p].op = "Rotate" /\ mp[p].pc = "returned"
        /\ mp[p].ncalls = 2
        /\ mp[p].firstBad = 1
        /\ mp[p].ret = FALSE

\* C17: when Close returns it has started one closing goroutine for every
\* writer in the target map, every one of these goroutines has called Close
\* and that Close has returned, with an error or without, and the result of
\* Close is nil.
C17_CloseWaitsForAll ==
    \A p \in 1..NClients :
        mp[p].op = "Close" /\ mp[p].pc = "returned" =>
            /\ mp[p].spawned = Writers(mp[p].atLock)
            /\ mp[p].nspawned = Cardinality(mp[p].spawned)
            /\ {task.w : task \in TasksOf(mp[p].id)} = mp[p].spawned
            /\ \A task \in TasksOf(mp[p].id) : task.st = "returned"
            /\ mp[p].err = "nil"

\* a Close of two targets has returned; one writer's Close failed, the
\* other's did not
C17_Witness ==
    \E p \in 1..NClients :
        /\ mp[p].op = "Close" /\ mp[p].pc = "returned"
        /\ \E t1, t2 \in TasksOf(mp[p].id) : t1.err /\ ~t2.err

\* C35: a Write or a Rotate that is going through the target map has called
\* no writer that a Drop or a Replace has started to close, and no call of
\* Write or Rotate is ever forwarded to such a writer, while its Close runs or
\* after it.
C35_NoForwardToRemovedWriter ==
    /\ [](\A p \in 1..NClients :
            mp[p].pc \in Reading => mp[p].called \cap mt.removed = {})
    /\ [][\A p \in 1..NClients :
            mp[p].pc \in Reading /\ mp'[p].ncalls = mp[p].ncalls + 1 =>
                \A k \in mp'[p].visited \ mp[p].visited :
                    mt.targets[k] \notin mt.removed]_vars

\* a Replace has started to close writer 1, whose Close is running, and a
\* Write that came after it has called the new writer only
C35_Witness ==
    /\ 1 \in mt.removed
    /\ \E task \in mk : task.w = 1 /\ task.st = "running"
    /\ \E p \in 1..NClients :
          /\ mp[p].op = "Write" /\ mp[p].pc = "returned"
          /\ mp[p].called = {2}

\* C36 (as stated): no writer has two closing goroutines: the Multee calls
\* Close on a writer at most once.
C36_ClosedAtMostOnce ==
    \A t1, t2 \in mk : t1.w = t2.w => t1 = t2

\* C36 (amended): a writer has a second closing goroutine only when its
\* first one was started by a Close of the Multee, which leaves the writers in
\* the target map; so as long as no Close, Drop or Replace follows a Close,
\* the Multee calls Close on a writer at most once.
C36_ClosedAgainOnlyAfterClose ==
    \A t1, t2 \in mk : t1.w = t2.w /\ t1.by < t2.by => t1.by \in mt.closes

\* writer 1 was replaced by writer 2 and the Multee was closed then: each of
\* the two writers has been closed, once
C36_Witness ==
    /\ mt.closes = {3}
    /\ mt.removed = {1}
    /\ mk = { [by |-> 2, w |-> 1, st |-> "returned", err |-> FALSE],
              [by |-> 3, w |-> 2, st |-> "returned", err |-> FALSE] }

\* C37: a Replace of a key that has no writer returns with the target map as
\* it was when it took the lock and has started no closing goroutine; and the
\* writer passed to it is never in the target map, is never called by a Write
\* or a Rotate, and is never closed.
C37_ReplaceOfAbsentKeyIsNoOp ==
    /\ \A p \in 1..NClients :
          /\ mp[p].op = "Replace" /\ mp[p].pc = "returned"
          /\ mp[p].atLock[mp[p].key] = NoWriter
          => /\ mp[p].atUnlock = mp[p].atLock
             /\ mp[p].spawned = {}
             /\ TasksOf(mp[p].id) = {}
    /\ \A w \in mt.refused :
          /\ w \notin Writers(mt.targets)
          /\ \A p \in 1..NClients : w \notin mp[p].called /\ w \notin mp[p].spawned
          /\ \A task \in mk : task.w # w

\* a Replace of key b, which had no writer, has returned, and a Write after
\* it has called the one writer there is, under key a
C37_Witness ==
    /\ mt.refused = {2}
    /\ mt.targets = [k \in Keys |-> IF k = "a" THEN 1 ELSE NoWriter]
    /\ mk = {}
    /\ \E p \in 1..NClients :
          /\ mp[p].op = "Write" /\ mp[p].pc = "returned" /\ mp[p].id = 3
          /\ mp[p].called = {1}


(***************************************************************************)
(* Claims about the TaskRateLimiter                                        *)
(***************************************************************************)
\* C18: with refill period 0 every attempt made so far has run its task; with
\* a nonzero period and initial burst K, as long as no refill period has gone
\* by, the tasks that have run are those of the first K attempts (all of them
\* if fewer were made, none if K = 0); and a task runs only during its own
\* attempt, so a dropped task is never run later.
C18_BurstThenDrop ==
    /\ [](rl.state = "ready" =>
            /\ rl.period = 0 => rl.ran = 1..rl.attempts
            /\ rl.period # 0 /\ rl.elapsed = 0 => rl.ran = 1..Min(rl.attempts, rl.burst))
    /\ [][rl'.ran # rl.ran =>
            /\ rl'.attempts = rl.attempts + 1
            /\ rl'.ran = rl.ran \cup {rl'.attempts}]_vars

\* four attempts on a limiter with burst 2 within the first refill period: the
\* first two ran, the other two were dropped
C18_Witness ==
    /\ rl.state = "ready"
    /\ rl.period # 0
    /\ rl.burst = 2
    /\ rl.elapsed = 0
    /\ rl.attempts = 4
    /\ rl.ran = {1, 2}

(***************************************************************************)
(* Claims about the transformer                                            *)
(***************************************************************************)
\* C19: Consume does not panic, whatever the event, and the request it returns
\* carries the event's uuid and processing start and has a failure that is
\* None, SkippedColumn, NonTrackingEvent, EmptyRequest or the event's own.
C19_ConsumeIsTotal ==
    /\ tx.state # "panicked"
    /\ tx.state = "returned" =>
          /\ tx.request.UUID = tx.event.UUID
          /\ tx.request.Pstart = tx.event.Pstart
          /\ tx.request.Failure \in
                {None, SkippedColumn, NonTrackingEvent, EmptyRequest, tx.event.Failure}

RECURSIVE SplitTabs(_, _)
\* the fields of a line: what is between its tabs; cur is the field so far
SplitTabs(text, cur) ==
    IF text = <<>> THEN <<cur>>
    ELSE IF Head(text) = "\t" THEN <<cur>> \o SplitTabs(Tail(text), <<>>)
    ELSE SplitTabs(Tail(text), Append(cur, Head(text)))

\* the value column n of the event's schema takes from the event, or the
\* empty string when Format returns an error for it
ColumnValue(event, n) ==
    LET f == Format(SchemaColumns[event.Event][n],
                    InjectServerFields(DecodeProperties(event.Properties).map, event))
    IN IF f.err = "nil" THEN Chars(f.value) ELSE <<>>

\* C20: when Consume returns a request with failure None or SkippedColumn, the
\* tabs of its line cut it into as many fields as the event's schema has
\* columns, and field n is the value of column n between double quotes, with
\* the quotes, backslashes and tabs of the value escaped; the field of a
\* skipped column is "".
C20_LineFollowsSchemaOrder ==
    tx.state = "returned" /\ tx.request.Failure \in {None, SkippedColumn} =>
        LET columns == SchemaColumns[tx.event.Event]
            fields == SplitTabs(tx.text, <<>>)
        IN /\ Len(fields) = Len(columns)
           /\ \A n \in 1..Len(columns) :
                 /\ fields[n] = <<"\"">> \o Escape(ColumnValue(tx.event, n)) \o <<"\"">>
                 /\ Format(columns[n], InjectServerFields(
                        DecodeProperties(tx.event.Properties).map, tx.event)).err # "nil"
                      => fields[n] = <<"\"", "\"">>

\* a line was made for an event whose first column was skipped and whose
\* second was not: "" and then the client's ip
C20_Witness ==
    /\ tx.state = "returned"
    /\ tx.request.Failure = SkippedColumn
    /\ tx.event.Properties = PropsNumericID
    /\ SplitTabs(tx.text, <<>>) = << <<"\"", "\"">>, Quote(Chars("10.1.40.26")) >>

\* C31: in the map the columns are formatted from, time is the event's
\* EventTime; client_time is the time the client sent when it sent one, and
\* what the client sent as client_time (or absent) when it sent no time; ip is
\* the client's own when it sent one and the event's ClientIP otherwise;
\* user_agent is the client's own when it sent one, the event's UserAgent
\* when it sent none and the UserAgent is not empty, and absent otherwise;
\* every other property is as the client sent it, and nothing else is added.
C31_ServerFieldsInjected ==
    tx.state = "returned" /\ tx.formatted =>
        LET sent == DecodeProperties(tx.event.Properties).map
            number(v) == [t |-> "number", v |-> v]
            string(v) == [t |-> "string", v |-> v]
        IN /\ tx.temp["time"] = number(tx.event.EventTime)
           /\ IF "time" \in DOMAIN sent
              THEN tx.temp["client_time"] = sent["time"]
              ELSE IF "client_time" \in DOMAIN sent
              THEN tx.temp["client_time"] = sent["client_time"]
              ELSE "client_time" \notin DOMAIN tx.temp
           /\ tx.temp["ip"] = IF "ip" \in DOMAIN sent THEN sent["ip"]
                              ELSE string(tx.event.ClientIP)
           /\ IF "user_agent" \in DOMAIN sent
              THEN tx.temp["user_agent"] = sent["user_agent"]
              ELSE IF tx.event.UserAgent # ""
              THEN tx.temp["user_agent"] = string(tx.event.UserAgent)
              ELSE "user_agent" \notin DOMAIN tx.temp
           /\ DOMAIN tx.temp \subseteq
                 DOMAIN sent \cup {"time", "client_time", "ip", "user_agent"}
           /\ \A k \in DOMAIN sent \ {"time", "client_time", "ip", "user_agent"} :
                 k \in DOMAIN tx.temp /\ tx.temp[k] = sent[k]

\* the client sent a time, a client_time and a user_agent of its own: its time
\* has become client_time, its user_agent is kept although the event has one
C31_Witness ==
    /\ tx.state = "returned" /\ tx.formatted
    /\ tx.event.Properties = PropsTimed
    /\ tx.event.UserAgent = "ua"
    /\ tx.temp["client_time"].v = "5"
    /\ tx.temp["time"].v = "1382033155"
    /\ tx.temp["user_agent"].v = "own"
    /\ tx.temp["x"].v = "1"

\* C32: for an event that carries no failure, Consume yields the
\* failure EmptyRequest exactly when the name of the event is empty.
C32_EmptyRequestIffEmptyName ==
    tx.state = "returned" /\ tx.event.Failure = None =>
        (tx.request.Failure = EmptyRequest <=> tx.event.Event = "")

\* what Consume does: for an event that carries no failure, it yields the
\* failure EmptyRequest exactly when the name of the event is empty or the
\* event has a schema and its properties do not decode into a map
EmptyRequestIffUnclassifiedError ==
    tx.state = "returned" /\ tx.event.Failure = None =>
        (tx.request.Failure = EmptyRequest <=>
            \/ tx.event.Event = ""
            \/ /\ tx.event.Event \in DOMAIN SchemaColumns
               /\ ~DecodeProperties(tx.event.Properties).ok)

\* a tracked event with a name, whose properties are cut short, comes back as
\* an EmptyRequest of category Unknown
NamedEventIsEmptyRequest ==
    /\ tx.state = "returned"
    /\ tx.event.Failure = None
    /\ tx.event.Event = "login"
    /\ tx.event.Properties = PropsMalformed
    /\ tx.request.Failure = EmptyRequest
    /\ tx.request.Category = "Unknown"

\* C21 (as stated): whenever the event's name has no schema, the request has
\* failure NonTrackingEvent, its line is the JSON dump {event, properties} and
\* its source is the event's properties.
C21_LookupIsFirstStep ==
    tx.state = "returned" /\ tx.event.Event \notin DOMAIN SchemaColumns =>
        /\ tx.request.Failure = NonTrackingEvent
        /\ tx.request.Line = MarshalNontracked(tx.event)
        /\ tx.request.Source = tx.event.Properties

\* C21: Consume looks at the event's failure first, at an empty name second
\* and at the schema third.  An event that carries a failure gets a request
\* with that failure, an empty line and its properties as source, whatever its
\* name; an event without a failure and with an empty name gets EmptyRequest;
\* an event without a failure whose non-empty name has no schema gets
\* NonTrackingEvent, its properties as source, and as line the JSON dump
\* {event, properties} when its properties are valid JSON, the empty line
\* when they are not.
C21_UntrackedEventIsDumped ==
    tx.state = "returned" =>
        /\ tx.event.Failure # None =>
              /\ tx.request.Failure = tx.event.Failure
              /\ tx.request.Line = <<>>
              /\ tx.request.Source = tx.event.Properties
        /\ tx.event.Failure = None /\ tx.event.Event = "" =>
              /\ tx.request.Failure = EmptyRequest
              /\ tx.request.Line = <<>>
        /\ (/\ tx.event.Failure = None
            /\ tx.event.Event # ""
            /\ tx.event.Event \notin DOMAIN SchemaColumns) =>
              /\ tx.request.Failure = NonTrackingEvent
              /\ tx.request.Source = tx.event.Properties
              /\ tx.request.Line = IF ValidJSON(tx.event.Properties)
                                   THEN MarshalNontracked(tx.event)
                                   ELSE <<>>

\* Consume returned the request of an untracked event whose properties could
\* not be dumped
C21_Witness ==
    /\ tx.state = "returned"
    /\ tx.event.Event = "foo"
    /\ tx.event.Failure = None
    /\ tx.event.Properties = PropsMalformed
    /\ tx.request.Failure = NonTrackingEvent
    /\ tx.request.Line = <<>>

(***************************************************************************)
(* Claims about the userIDWithMapping transformer                          *)
(***************************************************************************)
\* the Set calls among the calls made
RECURSIVE SetCalls(_)
SetCalls(calls) ==
    IF calls = <<>> THEN <<>>
    ELSE IF Head(calls).op \in {"LocalCache.Set", "RemoteCache.Set"}
         THEN <<[op |-> Head(calls).op, key |-> Head(calls).key, value |-> Head(calls).value]>>
                 \o SetCalls(Tail(calls))
         ELSE SetCalls(Tail(calls))

\* C22: when the fetcher returns its rate-limit error, the column is skipped,
\* the outcome counted for it is tooManyFetchRequests, and neither cache is
\* written.
C22_RateLimitIsCounted ==
    lk.pc = "counted" /\ lk.fetched = "lookup.ErrTooManyRequests" =>
        /\ lk.skipped
        /\ "tooManyFetchRequests" \in lk.stats
        /\ SetCalls(lk.calls) = <<>>
        /\ lk.local = lk.local0
        /\ lk.remote = lk.remote0

\* C23: after a fetch that failed the transformer returns ErrFetchFailure
\* with an empty value, and the column is skipped and counted as
\* cache.fetch_failure.  When the fetcher's error is ErrExtractingValue, Set
\* is called with the login and the empty string on the local cache and then
\* on the remote cache, and a cache that can be reached then holds the empty
\* string under the login and is otherwise as before; after any other fetch
\* error no Set is called and both caches are as they were.
C23_NegativeCacheOnInvalidLoginOnly ==
    lk.pc \in {"returned", "counted"} /\ lk.fetched \notin {"none", "nil"} =>
        /\ lk.err = "ErrFetchFailure"
        /\ lk.value = ""
        /\ lk.pc = "counted" => lk.skipped /\ lk.stats = {"cache.fetch_failure"}
        /\ IF lk.fetched = "lookup.ErrExtractingValue"
           THEN /\ SetCalls(lk.calls) =
                      << [op |-> "LocalCache.Set", key |-> lk.login, value |-> ""],
                         [op |-> "RemoteCache.Set", key |-> lk.login, value |-> ""] >>
                /\ lk.local = CacheSet(lk.local0, lk.login, "").cache
                /\ lk.remote = CacheSet(lk.remote0, lk.login, "").cache
                /\ lk.local.up => lk.local.entries[lk.login] = ""
                /\ lk.remote.up => lk.remote.entries[lk.login] = ""
           ELSE /\ SetCalls(lk.calls) = <<>>
                /\ lk.local = lk.local0
                /\ lk.remote = lk.remote0

\* the login was invalid for the fetcher, and both caches, which had nothing
\* under it, now hold the empty string
C23_Witness ==
    /\ lk.pc = "counted"
    /\ lk.fetched = "lookup.ErrExtractingValue"
    /\ lk.login = "kappa"
    /\ lk.local0.entries["kappa"] = Missing /\ lk.local.entries["kappa"] = ""
    /\ lk.remote0.entries["kappa"] = Missing /\ lk.remote.entries["kappa"] = ""
    /\ lk.stats = {"cache.fetch_failure"}

\* C33: after a fetch that succeeded, Set has been called with the login and
\* the fetched id on the local cache and then on the remote cache, a cache
\* that can be reached holds the id under the login, and the id is the value
\* of the column.  When the remote Set failed the value is the id all the
\* same, the outcome is ErrCacheSetFailure, counted as cache.set_failure, and
\* otherwise ErrFetchSuccess, counted as cache.fetch_success; in both cases
\* the column counts as a success and is not skipped.
C33_FetchedIDIsCachedAndEmitted ==
    lk.pc \in {"returned", "counted"} /\ lk.fetched = "nil" =>
        LET remoteSet == lk.calls[Len(lk.calls)] IN
        /\ SetCalls(lk.calls) =
              << [op |-> "LocalCache.Set", key |-> lk.login, value |-> "9"],
                 [op |-> "RemoteCache.Set", key |-> lk.login, value |-> "9"] >>
        /\ lk.local.up => lk.local.entries[lk.login] = "9"
        /\ lk.remote.up => lk.remote.entries[lk.login] = "9"
        /\ lk.value = "9"
        /\ remoteSet.op = "RemoteCache.Set"
        /\ lk.err = IF remoteSet.err = "nil" THEN "ErrFetchSuccess" ELSE "ErrCacheSetFailure"
        /\ lk.pc = "counted" =>
              /\ ~lk.skipped
              /\ lk.stats = IF remoteSet.err = "nil"
                            THEN {"success", "cache.fetch_success"}
                            ELSE {"success", "cache.set_failure"}

\* the id was fetched and the remote cache could not be written: the column
\* has the id, and is counted as a success and a set_failure
C33_Witness ==
    /\ lk.pc = "counted"
    /\ lk.fetched = "nil"
    /\ ~lk.remote.up
    /\ lk.local.up /\ lk.local.entries["kappa"] = "9"
    /\ lk.value = "9"
    /\ lk.err = "ErrCacheSetFailure"
    /\ ~lk.skipped
    /\ "cache.set_failure" \in lk.stats

\* C39: when the first call cached the empty string because the fetcher could
\* not extract a value for the login, and the local cache still has the entry
\* when the same login is looked up again, the second call makes one call,
\* LocalCache.Get, and none of the remote cache or the fetcher, returns the
\* empty value with ErrLocalCacheHit, and the column is not skipped and is
\* counted as a success and a local_cache_hit.
C39_NegativeEntryIsALocalHit ==
    /\ lk.round = 2 /\ lk.pc \in {"returned", "counted"}
    /\ lk.first.fetched = "lookup.ErrExtractingValue"
    /\ CacheGet(lk.local0, lk.login) = [err |-> "nil", value |-> ""]
    => /\ lk.calls = << [op |-> "LocalCache.Get", key |-> lk.login, value |-> "",
                         err |-> "nil"] >>
       /\ lk.fetched = "none"
       /\ lk.value = "" /\ lk.err = "ErrLocalCacheHit"
       /\ lk.local = lk.local0 /\ lk.remote = lk.remote0
       /\ lk.pc = "counted" =>
             ~lk.skipped /\ lk.stats = {"success", "cache.local_cache_hit"}

\* the first lookup of kappa ended in a fetch that could not extract a value;
\* the second one is answered by the local cache and counted as a success
C39_Witness ==
    /\ lk.round = 2 /\ lk.pc = "counted"
    /\ lk.first.fetched = "lookup.ErrExtractingValue"
    /\ lk.first.err = "ErrFetchFailure"
    /\ lk.login = "kappa"
    /\ Len(lk.calls) = 1
    /\ lk.err = "ErrLocalCacheHit" /\ lk.value = ""
    /\ ~lk.skipped

\* C24: when args[0] parses as an int64 the transformer returns it with
\* ErrIDSet and calls no cache and no fetcher.  Otherwise the first call, if
\* any, is LocalCache.Get; RemoteCache.Get is only ever the second call,
\* after a LocalCache.Get that returned an error; Fetcher.FetchInt64 is only
\* ever the third call, after both Gets returned an error.  When the
\* transformer returns ErrRemoteCacheHit it has called LocalCache.Set with the
\* login and the value the remote cache returned, and returns that value.
C24_LookupOrder ==
    /\ lk.pc \notin {"idle", "parse"} /\ safeParseInt(lk.arg0).err = "nil" =>
          lk.calls = <<>> /\ lk.err = "ErrIDSet" /\ lk.value = lk.arg0.v
    /\ lk.calls # <<>> => lk.calls[1].op = "LocalCache.Get"
    /\ \A i \in 1..Len(lk.calls) :
          /\ lk.calls[i].op = "LocalCache.Get" => i = 1
          /\ lk.calls[i].op = "RemoteCache.Get" =>
                i = 2 /\ lk.calls[1].op = "LocalCache.Get" /\ lk.calls[1].err # "nil"
          /\ lk.calls[i].op = "Fetcher.FetchInt64" =>
                /\ i = 3
                /\ lk.calls[1].op = "LocalCache.Get" /\ lk.calls[1].err # "nil"
                /\ lk.calls[2].op = "RemoteCache.Get" /\ lk.calls[2].err # "nil"
    /\ lk.pc \in {"returned", "counted"} /\ lk.err = "ErrRemoteCacheHit" =>
          /\ Len(lk.calls) = 3
          /\ lk.calls[2].op = "RemoteCache.Get" /\ lk.calls[2].err = "nil"
          /\ lk.calls[3].op = "LocalCache.Set"
          /\ lk.calls[3].key = lk.login
          /\ lk.calls[3].value = lk.calls[2].value
          /\ lk.value = lk.calls[2].value
          /\ lk.local0.up => lk.local.entries[lk.login] = lk.value

\* the id was found in the remote cache after the local cache, which had
\* nothing under the login, was asked, and is in the local cache now
C24_Witness ==
    /\ lk.pc = "returned"
    /\ lk.err = "ErrRemoteCacheHit"
    /\ lk.value = "42"
    /\ lk.arg1.v = " kappa "
    /\ lk.local0.up /\ lk.local0.entries["kappa"] = Missing
    /\ lk.local.entries["kappa"] = "42"

\* the errors of Format after which transform does not skip the column:
\* none, and id_set, local_cache_hit, remote_cache_hit, fetch_success and
\* set_failure
SuccessClass ==
    { "nil", "ErrIDSet", "ErrLocalCacheHit", "ErrRemoteCacheHit", "ErrFetchSuccess",
      "ErrCacheSetFailure" }

\* how many of the errors are in the set
RECURSIVE CountIn(_, _)
CountIn(errs, set) ==
    IF errs = <<>> THEN 0
    ELSE (IF Head(errs) \in set THEN 1 ELSE 0) + CountIn(Tail(errs), set)

\* the count of a stat in results
ResultOf(results, stat) ==
    IF stat \in DOMAIN results THEN results[stat] ELSE 0

\* C30: when transform has gone through the columns of an event's schema,
\* every column has been formatted and has its field in the line, whatever the
\* outcomes of the columns before it; the request's failure is SkippedColumn
\* when the outcome of at least one column is not of the success class (a
\* missing column, a cast error, a bad or empty lookup value, a fetch failure,
\* too many requests, an invalid mapping) and None when all are; skippedColumn
\* counts the skipped columns and success the others.
C30_SkipIffSomeColumnSkipped ==
    cl.pc = "returned" =>
        /\ Len(cl.errs) = cl.ncols
        /\ Len(cl.line) = cl.ncols
        /\ cl.failure = IF \E n \in 1..cl.ncols : cl.errs[n] \notin SuccessClass
                        THEN SkippedColumn ELSE None
        /\ (\A n \in 1..cl.ncols : cl.errs[n] \in SuccessClass) => cl.failure = None
        /\ ResultOf(cl.results, "skippedColumn") = CountIn(cl.errs, FormatErrors \ SuccessClass)
        /\ ResultOf(cl.results, "success") = CountIn(cl.errs, SuccessClass)

\* the first of three columns was skipped after a failed fetch, and the two
\* after it were formatted
C30_Witness ==
    /\ cl.pc = "returned"
    /\ cl.errs = <<"ErrFetchFailure", "ErrIDSet", "nil">>
    /\ cl.failure = SkippedColumn
    /\ cl.line = <<[quoted |-> ""], [quoted |-> "FFFF"], [quoted |-> "FFFF"]>>

(***************************************************************************)
(* Claims about the DynamicLoader                                          *)
(***************************************************************************)
\* C25: while Crank makes the attempts of a tick the snapshot is the one from
\* before the tick; when all 5 attempts of a tick have failed the snapshot is
\* still that one and Crank is back at its select; when an attempt succeeded
\* and Crank has assigned, the snapshot is the fetched config; and whenever
\* Crank is not about to assign, the snapshot is the config of the most recent
\* successful fetch.
C25_RefreshKeepsOrReplaces ==
    /\ dl.crank = "pulling" => dl.configs = dl.before /\ dl.failures = dl.fetches
    /\ dl.lastTick = "failed" /\ dl.crank # "returned" =>
          /\ dl.crank = "select"
          /\ dl.fetches = 5 /\ dl.failures = 5
          /\ dl.configs = dl.before
    /\ dl.lastTick = "succeeded" /\ dl.crank # "returned" =>
          /\ dl.crank = "select"
          /\ dl.fetches <= 5 /\ dl.failures = dl.fetches - 1
          /\ dl.configs = dl.newConfig
    /\ dl.pc \in {"ready", "closed"} /\ dl.crank # "storing" => dl.configs = dl.lastGood

\* a tick whose attempts all failed left ConfigA in place, and a later tick
\* replaced it by ConfigB
C25_Witness ==
    /\ dl.failedTicks = 1
    /\ dl.ticks = 2
    /\ dl.lastTick = "succeeded"
    /\ dl.before = ConfigA
    /\ dl.configs = ConfigB
    /\ dl.failures = 4

\* C26: NewDynamicLoader makes at most 5 fetches.  It returns a loader after
\* the first fetch that succeeds, which is its last fetch, with that fetch's
\* config as the snapshot; it returns an error, and no loader, after 5
\* fetches that all failed, and in no other case.
C26_ConstructionRetriesFiveTimes ==
    /\ dl.pc = "constructing" => dl.fetches < 5 /\ dl.failures = dl.fetches
    /\ dl.pc = "ready" /\ dl.crank = "none" =>
          /\ dl.fetches <= 5
          /\ dl.failures = dl.fetches - 1
          /\ dl.configs = dl.lastGood
          /\ dl.configs \in {ConfigA, ConfigB}
    /\ dl.pc = "failed" =>
          /\ dl.fetches = 5 /\ dl.failures = 5
          /\ dl.crank = "none"
          /\ dl.configs = ZeroConfig
    /\ dl.pc \in {"constructing", "ready"} /\ dl.crank = "none" => dl.failures < 5

\* the fifth fetch of NewDynamicLoader succeeded after four that failed
C26_Witness ==
    /\ dl.pc = "ready" /\ dl.crank = "none"
    /\ dl.fetches = 5 /\ dl.failures = 4
    /\ dl.configs = ConfigB

\* C27: the answer of a GetMetadataValueByType call is the answer the
\* snapshot before Crank's assignment gives or the answer the snapshot after
\* it gives.
C27_ReadsSeeWholeSnapshot ==
    dl.reads > 0 =>
        dl.read.answer \in
            { Lookup(dl.read.old, dl.read.eventName, dl.read.metadataType),
              Lookup(dl.read.new, dl.read.eventName, dl.read.metadataType) }

(***************************************************************************)
(* Claims about the completor calls of the Batcher and the Globber         *)
(***************************************************************************)
\* C38: at most one call of a Batcher's completor, and of a Globber's, has
\* begun and not returned, and one has exactly when the worker is inside it;
\* while it runs no new call of the completor begins and nothing is taken
\* from the input queue, to which Submit may still append.
C38_CompletorCallsAreSerialized ==
    /\ [](/\ Len(bc.calls) - bc.returned = IF bw.pc = "completor" THEN 1 ELSE 0
          /\ Len(gc.calls) - gc.returned = IF gw.pc = "completor" THEN 1 ELSE 0)
    /\ [][(bw.pc = "completor" =>
                (bc'.calls = bc.calls /\ IsPrefix(b.incoming, b'.incoming)))
           /\ (gw.pc = "completor" =>
                (gc'.calls = gc.calls /\ IsPrefix(g.incoming, g'.incoming)))]_vars

\* the second call of a Batcher's completor is running, the first has
\* returned, and an entry waits in the input queue
C38_Witness ==
    /\ bw.pc = "completor"
    /\ Len(bc.calls) = 2 /\ bc.returned = 1
    /\ b.incoming # <<>>

(***************************************************************************)
(* Claims about KinesisPipe.Close                                          *)
(***************************************************************************)
\* C40: when Close has returned the crank goroutine has exited, and no Result
\* is received from the channel from then on; the channel of Results is never
\* closed; and of the records Next returned, all were delivered but the one
\* crank holds, if it holds one, and the one it held when it returned, if it
\* held one: at most one record is discarded.
C40_CloseStopsDelivery ==
    /\ [](/\ kp.pc = "closed" => kp.crank = "exited" /\ kp.wg = 0
          /\ kp.channel = "open"
          /\ kp.discarded <= 1
          /\ kp.discarded = 1 => kp.crank = "exited"
          /\ kp.taken = kp.records + kp.discarded + (IF kp.held = "record" THEN 1 ELSE 0))
    /\ [][kp.pc = "closed" =>
            (kp'.delivered = kp.delivered /\ kp'.calls = kp.calls)]_vars

\* Close has returned; two records had been delivered, one of them after the
\* kinsumer was stopped, and the third, which crank held, is discarded
C40_Witness ==
    /\ kp.pc = "closed"
    /\ kp.crank = "exited"
    /\ kp.taken = 3
    /\ kp.records = 2
    /\ kp.discarded = 1

(***************************************************************************)
(* Claims about DynamicLoader.Close                                        *)
(***************************************************************************)
\* C34: when Close is called while Crank runs, Crank returns in the end; and
\* once Close has returned Crank has returned, no fetch is made any more and
\* the snapshot is not assigned again.
C34_CloseStopsCrank ==
    /\ (dl.closing /\ dl.crank \notin {"none", "returned"}) ~> (dl.crank = "returned")
    /\ [](dl.pc = "closed" => dl.crank = "returned")
    /\ [][dl.pc = "closed" =>
            /\ dl'.pc = "closed" /\ dl'.crank = "returned"
            /\ dl'.fetches = dl.fetches /\ dl'.ticks = dl.ticks
            /\ dl'.configs = dl.configs]_vars

\* Close was called while Crank was in a refresh, and has returned after the
\* refreshed snapshot was stored
C34_Witness ==
    /\ dl.pc = "closed"
    /\ dl.crank = "returned"
    /\ dl.lastTick = "succeeded"
    /\ dl.ticks = 1
    /\ dl.configs = dl.newConfig /\ dl.configs # dl.before

(***************************************************************************)
(* Claims about the processor pool                                         *)
(***************************************************************************)
\* no worker of the pool can take a step
PoolIdle ==
    /\ \A c \in 1..NConverters :
          /\ pconv[c].pc = "recv" => pq.in = <<>>
          /\ pconv[c].pc = "send" => Len(pq.transport) >= QueueSize
    /\ \A t \in 1..NTransformers :
          /\ ptrans[t].pc # "write"
          /\ ptrans[t].pc = "recv" => pq.transport = <<>>

\* the uuids of the requests a raw request must lead to, one per parsed event
\* (one in all when the parser panicked)
ExpectedUUIDs(request) ==
    IF ParsePanics(request) THEN << "error" >>
    ELSE [i \in 1..Len(Parse(request)) |->
            IF ConsumePanics(Parse(request)[i]) THEN "error" ELSE Parse(request)[i].UUID]

RECURSIVE ExpectedRequests(_)
\* how many requests a sequence of raw requests must lead to
ExpectedRequests(requests) ==
    IF requests = <<>> THEN 0
    ELSE Len(ExpectedUUIDs(Head(requests))) + ExpectedRequests(Tail(requests))

\* C28: Close closes the transport only when every converter has exited with
\* the input channel empty, and closes the writer only when every transformer
\* has exited with the transport empty; so when the writer is closed, and when
\* Close returns, the writer has received every request of every raw request
\* handed to Process before Close: one per parsed event, with its uuid.
C28_CloseDrainsInOrder ==
    /\ ps.pc \in {"transformers", "writer", "closed"} =>
          /\ \A c \in 1..NConverters : pconv[c].pc = "done" /\ pconv[c].out = <<>>
          /\ pq.in = <<>>
    /\ ps.pc \in {"writer", "closed"} =>
          /\ \A t \in 1..NTransformers : ptrans[t].pc = "done" /\ ptrans[t].req = <<>>
          /\ pq.transport = <<>>
          /\ Len(pw.requests) = ExpectedRequests(pw.processed)
          /\ \A i \in 1..Len(pw.processed) :
                LET uuids == ExpectedUUIDs(pw.processed[i])
                IN \A k \in 1..Len(uuids) :
                      \E j \in 1..Len(pw.requests) :
                          pw.requests[j].Pstart = i /\ pw.requests[j].UUID = uuids[k]

\* Close has returned after two raw requests of two events each, and the
\* writer has the four requests
C28_Witness ==
    /\ ps.pc = "closed"
    /\ Len(pw.processed) = 2
    /\ pw.processed[1].data = "multi"
    /\ pw.processed[2].data = "multi"
    /\ Len(pw.requests) = 4

IsPanicRequest(q, source) ==
    /\ q.Category = "Unknown"
    /\ q.UUID = "error"
    /\ q.Failure = PanickedInProcessing
    /\ q.Source = source

\* how many panic requests a raw request must lead to
ExpectedPanics(request) ==
    IF ParsePanics(request) THEN 1
    ELSE Cardinality({k \in 1..Len(Parse(request)) : ConsumePanics(Parse(request)[k])})

\* the panic requests the writer received for the i-th raw request
PanicsOf(i) ==
    {j \in 1..Len(pw.requests) :
        pw.requests[j].Pstart = i /\ pw.requests[j].Failure = PanickedInProcessing}

\* C2: a raw request on which the parser panics leads to one request in all,
\* with category "Unknown", uuid "error", failure PanickedInProcessing and the
\* raw bytes as source; an event on which the transformer panics leads to one
\* such request with an empty source; and the workers go on: once the pool has
\* nothing left to do, its channels are empty and every raw request, also one
\* queued behind a panic, has all its requests.
C2_PanicIsContained ==
    /\ \A j \in 1..Len(pw.requests) :
          LET q == pw.requests[j]
              request == pw.processed[q.Pstart]
          IN /\ ParsePanics(request) => IsPanicRequest(q, request.data)
             /\ q.Failure = PanickedInProcessing /\ ~ParsePanics(request)
                    => IsPanicRequest(q, "")
    /\ \A i \in 1..Len(pw.processed) :
          /\ Cardinality(PanicsOf(i)) <= ExpectedPanics(pw.processed[i])
          /\ PoolIdle => Cardinality(PanicsOf(i)) = ExpectedPanics(pw.processed[i])
    /\ PoolIdle =>
          /\ pq.in = <<>>
          /\ pq.transport = <<>>
          /\ Len(pw.requests) = ExpectedRequests(pw.processed)

\* a converter and a transformer have each taken another item after recovering
\* from a panic, both panic requests have reached the writer, and so has a
\* request of an event parsed after the parser's panic
C2_Witness ==
    /\ PoolIdle
    /\ \E c \in 1..NConverters : pconv[c].recovered = "resumed"
    /\ \E t \in 1..NTransformers : ptrans[t].recovered = "resumed"
    /\ \E j, k, l \in 1..Len(pw.requests) :
          /\ IsPanicRequest(pw.requests[j], "poison")
          /\ IsPanicRequest(pw.requests[k], "")
          /\ pw.requests[l].Failure = NonTrackingEvent
          /\ pw.requests[j].Pstart < pw.requests[l].Pstart

=============================================================================
